---- MODULE Spec2Model ----
(***************************************************************************)
(* Highway Racer: the game engine (game-engine.js, kept as                 *)
(* src/unnamed/part_002), the entities of src/js/game-objects.js, the      *)
(* particle system of src/js/particles.js, the constants at the end of     *)
(* src/js/app.js and the commands of src/js/input-controller.js.           *)
(*                                                                         *)
(* Numbers are fixed point: times are integer milliseconds, player and     *)
(* obstacle speed factors are thousandths (1000 = 1.0), the time scale is  *)
(* a percentage (100 = 1.0, 50 = 0.5), positions are twentieths of a       *)
(* pixel (Px), the difficulty counter is in ten-thousandths, and a uniform *)
(* draw r of Math.random() is the percentage floor(100 r).                 *)
(* Presentation-only fields (road offset, DOM, audio, particle positions,  *)
(* the power-ups' pulse, spin and glow) are not part of the state.         *)
(***************************************************************************)
EXTENDS Integers, Sequences, FiniteSets, TLC

\* ------------------------------------------------------------ GAME_CONFIG
LANE_COUNT == 3
BASE_GAME_SPEED == 1000
MAX_GAME_SPEED == 3500
SPEED_INCREMENT == 100
SPEED_INCREASE_INTERVAL == 15000
BASE_OBSTACLE_INTERVAL == 2000
MIN_OBSTACLE_INTERVAL == 500
\* 0.00001 ms per point of score: one part in OBSTACLE_INTERVAL_RATE_DENOM
OBSTACLE_INTERVAL_DECREASE_RATE == 1
OBSTACLE_INTERVAL_RATE_DENOM == 100000
POWER_UP_SPAWN_CHANCE == 35
POWER_UP_MIN_SPAWN_INTERVAL == 8000
STARTING_LIVES == 3
INVINCIBILITY_DURATION == 2000
PLAYER_WIDTH == 40
PLAYER_HEIGHT == 70
DIFFICULTY_INCREASE_RATE == 1
SCORE_MULTIPLIER == 10
BASE_SPEED_FACTOR == 150
MAX_PARTICLES == 100
\* Player.applyPowerUp: Math.min(this.lives + 1, 5)
MAX_LIVES == 5
\* gameLoop: the delta of a loop entered with gameTime = 0 (0.016 s)
NOMINAL_DELTA == 16
\* update: Math.min(deltaTime, 0.1)
MAX_DELTA == 100
\* spawnObstacle / spawnPowerUp: minSafeDistance, safeDistance (pixels)
SAFE_DISTANCE == 150
\* spawnPowerUp: the deferral "+ 1000"
POWER_UP_RETRY == 1000
\* Player.applyPowerUp(powerType, duration = 5000)
DEFAULT_POWER_DURATION == 5000
\* Player: blinkInterval
BLINK_INTERVAL == 200
\* PowerUp: trailInterval
TRAIL_INTERVAL == 100

\* The canvas, sized by resizeCanvas from its container (pixels).
CanvasWidth == 300
CanvasHeight == 600

\* ------------------------------------------------------------ bounds
\* The wall clock (ms since page load) stops advancing here.
MaxClock == 18000
\* Steps (callbacks and commands) in one behaviour.
MaxSteps == 4
\* Movement and speed commands in one behaviour.
MaxCommands == 1
\* resumeGame is not explored once the player is this many pixels off the road.
MaxDrift == 15000

\* ------------------------------------------------------------ arithmetic
Px(n) == n * 20
Abs(n) == IF n < 0 THEN -n ELSE n
Min(a, b) == IF a < b THEN a ELSE b
Max(a, b) == IF a > b THEN a ELSE b
\* floor(a * b / c) for c > 0, without forming a * b
MulDiv(a, b, c) == (a \div c) * b + ((a % c) * b) \div c

GAME_STATES == {"menu", "playing", "paused", "gameOver"}

\* ------------------------------------------------------------ catalogs
OBSTACLE_TYPES ==
    << [type |-> "car",    width |-> 50, height |-> 80,  points |-> 10, adjW |-> -5, adjH |-> -5],
       [type |-> "truck",  width |-> 70, height |-> 120, points |-> 20, adjW |-> -5, adjH |-> -5],
       [type |-> "debris", width |-> 30, height |-> 30,  points |-> 5,  adjW |-> -2, adjH |-> -2] >>

\* duration 0 stands for the missing duration of extraLife (powerUpType.duration || 0)
POWER_UP_TYPES ==
    << [type |-> "shield",     duration |-> 5000, width |-> 30, height |-> 30, effect |-> "invincibility"],
       [type |-> "slowTime",   duration |-> 5000, width |-> 30, height |-> 30, effect |-> "slowMotion"],
       [type |-> "extraLife",  duration |-> 0,    width |-> 30, height |-> 30, effect |-> "addLife"],
       [type |-> "scoreBoost", duration |-> 5000, width |-> 30, height |-> 30, effect |-> "doubleScore"] >>

\* speeds in thousandths, the chance as a percentage, the decrease rate in
\* millionths of a millisecond per point
DIFFICULTY_PRESETS ==
    [easy    |-> [BASE_GAME_SPEED |-> 800, MAX_GAME_SPEED |-> 2000,
                  SPEED_INCREASE_INTERVAL |-> 25000, POWER_UP_SPAWN_CHANCE |-> 30,
                  STARTING_LIVES |-> 5, OBSTACLE_INTERVAL_DECREASE_RATE |-> 5],
     medium  |-> [BASE_GAME_SPEED |-> 1000, MAX_GAME_SPEED |-> 3000,
                  SPEED_INCREASE_INTERVAL |-> 15000, POWER_UP_SPAWN_CHANCE |-> 25,
                  STARTING_LIVES |-> 3, OBSTACLE_INTERVAL_DECREASE_RATE |-> 10],
     hard    |-> [BASE_GAME_SPEED |-> 1200, MAX_GAME_SPEED |-> 3500,
                  SPEED_INCREASE_INTERVAL |-> 10000, POWER_UP_SPAWN_CHANCE |-> 20,
                  STARTING_LIVES |-> 3, OBSTACLE_INTERVAL_DECREASE_RATE |-> 20],
     extreme |-> [BASE_GAME_SPEED |-> 1500, MAX_GAME_SPEED |-> 4000,
                  SPEED_INCREASE_INTERVAL |-> 8000, POWER_UP_SPAWN_CHANCE |-> 15,
                  STARTING_LIVES |-> 2, OBSTACLE_INTERVAL_DECREASE_RATE |-> 30]]

PARTICLE_CONFIG ==
    [crash   |-> [count |-> 30, lifetimeMin |-> 500, lifetimeMax |-> 1000],
     sparkle |-> [count |-> 10, lifetimeMin |-> 300, lifetimeMax |-> 600]]

\* updatePowerUps: the particleConfig of a trail burst
TrailParticleConfig == [count |-> 3, lifetimeMin |-> 300, lifetimeMax |-> 600]

\* ------------------------------------------------------------ geometry
LaneWidth == CanvasWidth \div LANE_COUNT
\* lane * laneWidth + (laneWidth - width) / 2
LaneX(lane, width) == Px(lane * LaneWidth) + Px(LaneWidth - width) \div 2
PlayerY == Px(CanvasHeight - PLAYER_HEIGHT - 20)

Rect(x, y, w, h) == [x |-> x, y |-> y, width |-> w, height |-> h]

\* Variant: checkCollision with the comparisons <= and >=.
checkCollisionTouching(a, b) ==
    /\ a.x <= b.x + b.width
    /\ a.x + a.width >= b.x
    /\ a.y <= b.y + b.height
    /\ a.y + a.height >= b.y

\* utility.js checkCollision: strict AABB overlap
checkCollision(a, b) ==
    /\ a.x < b.x + b.width
    /\ a.x + a.width > b.x
    /\ a.y < b.y + b.height
    /\ a.y + a.height > b.y

\* ------------------------------------------------------------ Obstacle
ObstacleType(name) == CHOOSE t \in {OBSTACLE_TYPES[i] : i \in 1..Len(OBSTACLE_TYPES)} : t.type = name

\* new Obstacle(lane, laneWidth): y = -height; speed is 1 + Math.random() * 0.5
NewObstacle(id, lane, typeIdx, speed) ==
    [id |-> id, lane |-> lane, type |-> OBSTACLE_TYPES[typeIdx].type,
     y |-> Px(-OBSTACLE_TYPES[typeIdx].height), speed |-> speed]

ObstacleX(o) == LaneX(o.lane, ObstacleType(o.type).width)

\* obstacle.hitbox: the body shrunk by hitboxAdjustment, kept at the body's x, y
ObstacleHitbox(o) ==
    LET t == ObstacleType(o.type)
    IN  Rect(ObstacleX(o), o.y, Px(t.width + t.adjW), Px(t.height + t.adjH))

\* Obstacle.update: y += speed * playerSpeed * BASE_SPEED_FACTOR * deltaTime * timeScale
ObstacleFall(o, delta, playerSpeed, timeScale) ==
    LET rate == (o.speed * playerSpeed) \div 1000
        d2   == (delta * timeScale) \div 100
    IN  (rate * (Px(BASE_SPEED_FACTOR) \div 1000) * d2) \div 1000

ObstacleUpdate(o, delta, playerSpeed, timeScale) ==
    [o EXCEPT !.y = o.y + ObstacleFall(o, delta, playerSpeed, timeScale)]

\* Obstacle.update: if (this.y > gameHeight) markedForDeletion
OffScreen(e) == e.y > Px(CanvasHeight)

\* ------------------------------------------------------------ PowerUp
PowerUpType(name) == CHOOSE t \in {POWER_UP_TYPES[i] : i \in 1..Len(POWER_UP_TYPES)} : t.type = name
PowerUpTypeNames == {POWER_UP_TYPES[i].type : i \in 1..Len(POWER_UP_TYPES)}

\* new PowerUp(lane, laneWidth, typeOverride): a null override draws the type
\* uniformly from all of POWER_UP_TYPES (randIdx); lastTrailTime -1 is the
\* constructor's 0 of the Date.now() epoch (long ago).
NewPowerUp(lane, typeOverride, randIdx) ==
    [lane |-> lane,
     type |-> IF typeOverride \in PowerUpTypeNames THEN typeOverride ELSE POWER_UP_TYPES[randIdx].type,
     y |-> Px(-30), lastTrailTime |-> -1]

Important(pu) == pu.type \in {"shield", "extraLife"}

\* x is computed from the catalog width; shield and extraLife then grow by 5
PowerUpBody(pu) ==
    LET t    == PowerUpType(pu.type)
        grow == IF Important(pu) THEN 5 ELSE 0
    IN  Rect(LaneX(pu.lane, t.width), pu.y, Px(t.width + grow), Px(t.height + grow))

\* PowerUp.update: y += playerSpeed * BASE_SPEED_FACTOR * (deltaTime * timeScale)
PowerUpFall(delta, playerSpeed, timeScale) ==
    LET d2 == (delta * timeScale) \div 100
    IN  (playerSpeed * (Px(BASE_SPEED_FACTOR) \div 1000) * d2) \div 1000

\* ------------------------------------------------------------ Player
NoPlayer ==
    [exists |-> FALSE, x |-> 0, lane |-> 0, targetLane |-> 0, speed |-> 0,
     isAccelerating |-> FALSE, lives |-> 0, invincible |-> FALSE, invincibleTime |-> 0,
     hasShield |-> FALSE, power |-> "null", powerUpTime |-> 0, lastBlinkTime |-> 0,
     visible |-> TRUE]

\* new Player(laneWidth, gameHeight)
NewPlayer ==
    [exists |-> TRUE, x |-> LaneX(1, PLAYER_WIDTH), lane |-> 1, targetLane |-> 1,
     speed |-> BASE_GAME_SPEED, isAccelerating |-> FALSE, lives |-> STARTING_LIVES,
     invincible |-> FALSE, invincibleTime |-> 0, hasShield |-> FALSE, power |-> "null",
     powerUpTime |-> 0, lastBlinkTime |-> 0, visible |-> TRUE]

PlayerBody(p) == Rect(p.x, PlayerY, Px(PLAYER_WIDTH), Px(PLAYER_HEIGHT))

\* Variant: Player.moveLeft without the check for the leftmost lane.
moveLeftUnchecked(p) == [p EXCEPT !.targetLane = p.targetLane - 1]

moveLeft(p) == IF p.targetLane > 0 THEN [p EXCEPT !.targetLane = p.targetLane - 1] ELSE p

moveRight(p) ==
    IF p.targetLane < LANE_COUNT - 1 THEN [p EXCEPT !.targetLane = p.targetLane + 1] ELSE p

setSpeed(p, newSpeed) == [p EXCEPT !.speed = newSpeed]

\* Variant: Player.accelerate without the upper limit.
accelerateUnlimited(p) == [p EXCEPT !.isAccelerating = TRUE, !.speed = (p.speed * 3) \div 2]

\* this.speed = Math.min(this.speed * 1.5, MAX_GAME_SPEED)
accelerate(p) ==
    [p EXCEPT !.isAccelerating = TRUE, !.speed = Min((p.speed * 3) \div 2, MAX_GAME_SPEED)]

\* Variant: Player.decelerate that undoes one accelerate (speed / 1.5).
decelerateUndoesAccelerate(p) ==
    [p EXCEPT !.isAccelerating = FALSE, !.speed = Max(BASE_GAME_SPEED, (p.speed * 2) \div 3)]

decelerate(p) == [p EXCEPT !.isAccelerating = FALSE, !.speed = BASE_GAME_SPEED]

\* Player.applyPowerUp(powerType, duration)
\* Variant: Player.applyPowerUp whose addLife has no upper limit.
PlayerApplyPowerUpUncapped(p, powerType, duration) ==
    LET q == [p EXCEPT !.power = powerType, !.powerUpTime = duration]
    IN  CASE powerType = "invincibility" -> [q EXCEPT !.invincible = TRUE, !.hasShield = TRUE]
          [] powerType = "addLife"       -> [q EXCEPT !.lives = p.lives + 1]
          [] OTHER                       -> q

PlayerApplyPowerUp(p, powerType, duration) ==
    LET q == [p EXCEPT !.power = powerType, !.powerUpTime = duration]
    IN  CASE powerType = "invincibility" -> [q EXCEPT !.invincible = TRUE, !.hasShield = TRUE]
          [] powerType = "addLife"       -> [q EXCEPT !.lives = Min(p.lives + 1, MAX_LIVES)]
          [] OTHER                       -> q

\* Player.takeDamage: the player after it, and whether the player died
\* Variant: Player.takeDamage that reports death one collision late.
takeDamageLateDeath(p) ==
    IF p.invincible THEN [player |-> p, dead |-> FALSE]
    ELSE IF p.lives - 1 < 0
         THEN [player |-> [p EXCEPT !.lives = p.lives - 1], dead |-> TRUE]
         ELSE [player |-> [p EXCEPT !.lives = p.lives - 1, !.invincible = TRUE,
                                    !.invincibleTime = INVINCIBILITY_DURATION],
               dead |-> FALSE]

takeDamage(p) ==
    IF p.invincible THEN [player |-> p, dead |-> FALSE]
    ELSE IF p.lives - 1 <= 0
         THEN [player |-> [p EXCEPT !.lives = p.lives - 1], dead |-> TRUE]
         ELSE [player |-> [p EXCEPT !.lives = p.lives - 1, !.invincible = TRUE,
                                    !.invincibleTime = INVINCIBILITY_DURATION],
               dead |-> FALSE]

\* Player.update, the lane transition: x += dx * laneChangeSpeed(10) * deltaTime
PlayerMove(p, delta) ==
    LET targetX == LaneX(p.targetLane, PLAYER_WIDTH)
        dx      == targetX - p.x
    IN  IF Abs(dx) > Px(1) \div 10
        THEN [p EXCEPT !.x = p.x + MulDiv(dx, delta, 100)]
        ELSE [p EXCEPT !.x = targetX, !.lane = p.targetLane]

\* Variant: the invincibility countdown that also runs under a shield.
PlayerInvincibilityUnderShield(p, delta) ==
    IF p.invincible
    THEN LET t == p.invincibleTime - delta
         IN  IF t <= 0
             THEN [p EXCEPT !.invincibleTime = t, !.invincible = FALSE, !.visible = TRUE]
             ELSE LET b == p.lastBlinkTime + delta
                  IN  IF b >= BLINK_INTERVAL
                      THEN [p EXCEPT !.invincibleTime = t, !.visible = ~p.visible,
                                     !.lastBlinkTime = 0]
                      ELSE [p EXCEPT !.invincibleTime = t, !.lastBlinkTime = b]
    ELSE p

\* Player.update, the invincibility countdown and the blink
PlayerInvincibility(p, delta) ==
    IF p.invincible /\ p.power # "invincibility"
    THEN LET t == p.invincibleTime - delta
         IN  IF t <= 0
             THEN [p EXCEPT !.invincibleTime = t, !.invincible = FALSE, !.visible = TRUE]
             ELSE LET b == p.lastBlinkTime + delta
                  IN  IF b >= BLINK_INTERVAL
                      THEN [p EXCEPT !.invincibleTime = t, !.visible = ~p.visible,
                                     !.lastBlinkTime = 0]
                      ELSE [p EXCEPT !.invincibleTime = t, !.lastBlinkTime = b]
    ELSE p

\* Variant: the power-up countdown that ends the invincibility and leaves the
\* shield flag and the visibility as they are.
PlayerPowerTimerKeepsShield(p, delta) ==
    IF p.power # "null"
    THEN LET t == p.powerUpTime - delta
         IN  IF t <= 0
             THEN IF p.power = "invincibility"
                  THEN [p EXCEPT !.powerUpTime = t, !.invincible = FALSE, !.power = "null"]
                  ELSE [p EXCEPT !.powerUpTime = t, !.power = "null"]
             ELSE [p EXCEPT !.powerUpTime = t]
    ELSE p

\* Player.update, the power-up countdown
PlayerPowerTimer(p, delta) ==
    IF p.power # "null"
    THEN LET t == p.powerUpTime - delta
         IN  IF t <= 0
             THEN IF p.power = "invincibility"
                  THEN [p EXCEPT !.powerUpTime = t, !.invincible = FALSE, !.hasShield = FALSE,
                                 !.power = "null", !.visible = TRUE]
                  ELSE [p EXCEPT !.powerUpTime = t, !.power = "null", !.visible = TRUE]
             ELSE [p EXCEPT !.powerUpTime = t]
    ELSE p

\* Player.update(deltaTime)
PlayerUpdate(p, delta) == PlayerPowerTimer(PlayerInvincibility(PlayerMove(p, delta), delta), delta)

\* ------------------------------------------------------------ ParticleSystem
\* particles is the particle list, oldest first, run-length encoded: a group is
\* n consecutive particles of one burst, which share age and lifetime.
ParticleCount(ps) == LET RECURSIVE Sum(_)
                         Sum(i) == IF i = 0 THEN 0 ELSE ps[i].n + Sum(i - 1)
                     IN  Sum(Len(ps))

\* this.particles.shift(), k times
RECURSIVE ShiftParticles(_, _)
ShiftParticles(ps, k) ==
    IF k <= 0 \/ ps = <<>> THEN ps
    ELSE IF ps[1].n <= k THEN ShiftParticles(Tail(ps), k - ps[1].n)
         ELSE <<[ps[1] EXCEPT !.n = ps[1].n - k]>> \o Tail(ps)

\* Variant: ParticleSystem.emit that makes room by dropping the newest particles.
emitEvictingNewest(ps, count, lifetime) ==
    LET RECURSIVE Pop(_, _)
        Pop(q, k) ==
            IF k <= 0 \/ q = <<>> THEN q
            ELSE IF q[Len(q)].n <= k THEN Pop(SubSeq(q, 1, Len(q) - 1), k - q[Len(q)].n)
                 ELSE SubSeq(q, 1, Len(q) - 1) \o <<[q[Len(q)] EXCEPT !.n = @ - k]>>
    IN  Pop(ps, ParticleCount(ps) + count - MAX_PARTICLES)
            \o <<[n |-> count, age |-> 0, lifetime |-> lifetime]>>

\* ParticleSystem.emit: each new particle first evicts the oldest one when the
\* list holds MAX_PARTICLES
emit(ps, count, lifetime) ==
    ShiftParticles(ps, ParticleCount(ps) + count - MAX_PARTICLES)
        \o <<[n |-> count, age |-> 0, lifetime |-> lifetime]>>

\* The lifetime randomNumber(min, max) draws: the particles of a burst are
\* given the longest one, which keeps them in the list the longest.
LifetimeDraw(cfg) == cfg.lifetimeMax

\* ParticleSystem.update, the particles: age += delta * 1000; dead when age >= lifetime
ParticlesUpdate(ps, delta) ==
    LET aged == [i \in 1..Len(ps) |-> [ps[i] EXCEPT !.age = ps[i].age + delta]]
    IN  SelectSeq(aged, LAMBDA g : g.age < g.lifetime)

\* ParticleSystem.update, the emitters: no particle carries an emitterIndex, so
\* every one-shot emitter (the only kind the engine creates) is removed
EmittersUpdate(n) == 0

\* ------------------------------------------------------------ spawn intervals
\* Variant: getObstacleSpawnInterval without the lower limit.
getObstacleSpawnIntervalUnbounded(score) ==
    BASE_OBSTACLE_INTERVAL * OBSTACLE_INTERVAL_RATE_DENOM
        - score * OBSTACLE_INTERVAL_DECREASE_RATE

\* getObstacleSpawnInterval, in OBSTACLE_INTERVAL_RATE_DENOM-ths of a millisecond
getObstacleSpawnInterval(score) ==
    Max(MIN_OBSTACLE_INTERVAL * OBSTACLE_INTERVAL_RATE_DENOM,
        BASE_OBSTACLE_INTERVAL * OBSTACLE_INTERVAL_RATE_DENOM
            - score * OBSTACLE_INTERVAL_DECREASE_RATE)

\* Variant: getPowerUpSpawnInterval with five obstacle intervals for three.
getPowerUpSpawnIntervalFiveFold(score) ==
    Max(POWER_UP_MIN_SPAWN_INTERVAL * OBSTACLE_INTERVAL_RATE_DENOM,
        getObstacleSpawnInterval(score) * 5)

\* getPowerUpSpawnInterval, same unit
getPowerUpSpawnInterval(score) ==
    Max(POWER_UP_MIN_SPAWN_INTERVAL * OBSTACLE_INTERVAL_RATE_DENOM,
        getObstacleSpawnInterval(score) * 3)

\* elapsed > interval, for an integer elapsed and an interval in DENOM-ths
Exceeds(elapsed, interval) == elapsed > interval \div OBSTACLE_INTERVAL_RATE_DENOM

\* lanes holding an obstacle with y < 150
RecentLanes(obstacles) ==
    {obstacles[i].lane : i \in {j \in 1..Len(obstacles) : obstacles[j].y < Px(SAFE_DISTANCE)}}

SafeLanes(obstacles) == (0..(LANE_COUNT - 1)) \ RecentLanes(obstacles)

\* Variant: spawnObstacle that draws from all lanes.
ObstacleLaneChoicesAny(obstacles) == 0..(LANE_COUNT - 1)

\* spawnObstacle: the lanes the draw can fall on
ObstacleLaneChoices(obstacles) ==
    IF obstacles # <<>> /\ SafeLanes(obstacles) # {}
    THEN SafeLanes(obstacles)
    ELSE 0..(LANE_COUNT - 1)

\* spawnPowerUp: the type override chosen from the draw rand (a percentage);
\* "null" leaves the type to the PowerUp constructor. this.timeSinceLastPowerUp
\* is never assigned, so the history branch (lines 691-725) is never taken.
PowerUpOverride(lives, rand) ==
    IF lives = 1
    THEN (IF rand < 60 THEN "extraLife" ELSE IF rand < 90 THEN "shield" ELSE "null")
    ELSE (IF rand < 40 THEN "shield" ELSE IF rand < 80 THEN "extraLife" ELSE "null")

RemoveAt(seq, i) == SubSeq(seq, 1, i - 1) \o SubSeq(seq, i + 1, Len(seq))

SetMax(S) == CHOOSE m \in S : \A n \in S : n <= m

\* ------------------------------------------------------------ GameEngine
\* A world w is the engine object (w.game) with the part of the browser it
\* acts on: the number of pending requestAnimationFrame callbacks, the pending
\* setTimeout callbacks, the next obstacle identity, and the record ev of what
\* the current handler did (a history record, not program state): the handler
\* (op), the mode it began in (from), whether update ran, gameLoop's deltaTime
\* and update's clamped delta, whether checkCollisions ran and found the player
\* invincible, the obstacle hit (0 for none), takeDamage's result (dead), the
\* effect picked up, whether a ReferenceError ended the handler (threw), the
\* notifications sent, the input of a movement or speed command or the name a
\* difficulty button passes, and, for a
\* spawn step that is applied on its own, its Math.random() draws and whether
\* the per-type history object existed before it (spawnedBefore).
\*
\* game.animationId is "null", "live" (the id of a callback that is pending) or
\* "stale" (the id of a callback that has run or was cancelled).
\* game.timeSinceLastPowerUpType: defined is FALSE while the field is
\* undefined; types are the keys of the object.
\* A pending setTimeout callback is the field it resets, its due time, and the
\* history flag stale: whether startGame has run since it was scheduled, that
\* is, whether a previous run scheduled it.

\* constructor
NewGame(highScore, notificationSystem) ==
    [state |-> "menu", score |-> 0, highScore |-> highScore, gameTime |-> 0,
     lastObstacleTime |-> 0, lastSpeedIncreaseTime |-> 0, lastPowerUpTime |-> 0,
     timeScale |-> 100, scoreMultiplier |-> 1, difficulty |-> 10000,
     previousScore |-> 0, player |-> NoPlayer, obstacles |-> <<>>, powerUps |-> <<>>,
     particles |-> <<>>, emitters |-> 0, animationId |-> "null",
     timeSinceLastPowerUpType |-> [defined |-> FALSE, types |-> {}],
     notificationSystem |-> notificationSystem]

\* no Math.random() draw made
NoDraw == [none |-> TRUE]

NoEvent(op) ==
    [op |-> op, from |-> "none", ran |-> FALSE, deltaTime |-> 0, delta |-> 0,
     checked |-> FALSE, invAtCollision |-> FALSE,
     hit |-> 0, dead |-> FALSE, pickup |-> "none", threw |-> FALSE, notes |-> <<>>,
     input |-> "none", draw |-> NoDraw, spawnedBefore |-> FALSE]

\* if (this.notificationSystem) this.notificationSystem.<level>(...)
Notify(w, kind) ==
    IF w.game.notificationSystem THEN [w EXCEPT !.ev.notes = Append(@, kind)] ELSE w

\* if (this.animationId) cancelAnimationFrame(this.animationId)
cancelAnimationFrame(w) ==
    IF w.game.animationId = "live"
    THEN [w EXCEPT !.pending = @ - 1, !.game.animationId = "stale"]
    ELSE w

\* this.animationId = requestAnimationFrame(...)
requestAnimationFrame(w) == [w EXCEPT !.pending = @ + 1, !.game.animationId = "live"]

\* particleSystem.explosion -> createEmitter -> emit
explosion(w, cfg) ==
    [w EXCEPT !.game.emitters = @ + 1,
              !.game.particles = emit(@, cfg.count, LifetimeDraw(cfg))]

showMenu(w) == [cancelAnimationFrame(w) EXCEPT !.game.animationId = "null"]

\* Variant: pauseGame that requests one more frame to draw the pause menu.
pauseGameRedraws(w) ==
    requestAnimationFrame([cancelAnimationFrame(w) EXCEPT !.game.animationId = "null"])

\* Variant: pauseGame that clears animationId without cancelling the callback.
pauseGameForgetsFrame(w) == [w EXCEPT !.game.animationId = "null"]

pauseGame(w) == [cancelAnimationFrame(w) EXCEPT !.game.animationId = "null"]

endGame(w) ==
    LET w1 == [cancelAnimationFrame(w) EXCEPT !.game.animationId = "null"]
    IN  IF w1.game.score > w1.game.highScore
        THEN Notify([w1 EXCEPT !.game.highScore = w1.game.score], "highScore")
        ELSE Notify(w1, "gameOver")

\* GameEngine.applyPowerUp(powerUp)
applyPowerUp(w, pu, now) ==
    LET t == PowerUpType(pu.type)
        p == w.game.player
        timer(field) == [sets |-> field, due |-> now + t.duration, stale |-> FALSE]
    IN  CASE t.effect = "invincibility" ->
               Notify([w EXCEPT !.game.player = PlayerApplyPowerUp(p, "invincibility", t.duration)],
                      "shield")
          [] t.effect = "slowMotion" ->
               Notify([w EXCEPT !.game.timeScale = 50,
                                !.timers = @ \cup {timer("timeScale")},
                                !.game.player = PlayerApplyPowerUp(p, "slowMotion", t.duration)],
                      "slowMotion")
          [] t.effect = "addLife" ->
               Notify([w EXCEPT !.game.player =
                                    PlayerApplyPowerUp(p, "addLife", DEFAULT_POWER_DURATION)],
                      "extraLife")
          [] t.effect = "doubleScore" ->
               Notify([w EXCEPT !.game.scoreMultiplier = 2,
                                !.timers = @ \cup {timer("scoreMultiplier")},
                                !.game.player = PlayerApplyPowerUp(p, "doubleScore", t.duration)],
                      "doubleScore")

\* Variant: updateObstacles whose award leaves out the score multiplier.
updateObstaclesPlainAward(w, delta) ==
    LET g     == w.game
        moved == [i \in 1..Len(g.obstacles) |->
                     ObstacleUpdate(g.obstacles[i], delta, g.player.speed, g.timeScale)]
        award(o) == (ObstacleType(o.type).points * g.player.speed) \div 1000
        RECURSIVE Points(_)
        Points(i) == IF i = 0 THEN 0
                     ELSE (IF OffScreen(moved[i]) THEN award(moved[i]) ELSE 0) + Points(i - 1)
    IN  [w EXCEPT !.game.obstacles = SelectSeq(moved, LAMBDA o : ~OffScreen(o)),
                  !.game.score = @ + Points(Len(moved))]

\* updateObstacles: move every obstacle, remove the ones past the bottom edge
\* and award Math.floor(points * player.speed * scoreMultiplier) for each
updateObstacles(w, delta) ==
    LET g     == w.game
        moved == [i \in 1..Len(g.obstacles) |->
                     ObstacleUpdate(g.obstacles[i], delta, g.player.speed, g.timeScale)]
        award(o) == (ObstacleType(o.type).points * g.player.speed * g.scoreMultiplier) \div 1000
        RECURSIVE Points(_)
        Points(i) == IF i = 0 THEN 0
                     ELSE (IF OffScreen(moved[i]) THEN award(moved[i]) ELSE 0) + Points(i - 1)
    IN  [w EXCEPT !.game.obstacles = SelectSeq(moved, LAMBDA o : ~OffScreen(o)),
                  !.game.score = @ + Points(Len(moved))]

\* PowerUp.update: shouldCreateTrail
TrailDue(pu, now) ==
    Important(pu) /\ (pu.lastTrailTime < 0 \/ now - pu.lastTrailTime > TRAIL_INTERVAL)

RECURSIVE Explosions(_, _, _)
Explosions(w, cfg, k) == IF k = 0 THEN w ELSE Explosions(explosion(w, cfg), cfg, k - 1)

\* updatePowerUps: move every power-up, one trail burst per flagged power-up,
\* remove the ones past the bottom edge
updatePowerUps(w, delta, now) ==
    LET g     == w.game
        fall  == PowerUpFall(delta, g.player.speed, g.timeScale)
        moved == [i \in 1..Len(g.powerUps) |->
                     [g.powerUps[i] EXCEPT
                         !.y = @ + fall,
                         !.lastTrailTime = IF TrailDue(g.powerUps[i], now) THEN now ELSE @]]
        k     == Cardinality({i \in 1..Len(g.powerUps) : TrailDue(g.powerUps[i], now)})
    IN  Explosions([w EXCEPT !.game.powerUps = SelectSeq(moved, LAMBDA pu : ~OffScreen(pu))],
                   TrailParticleConfig, k)

\* Variant: the obstacle loop of checkCollisions without its break: every
\* obstacle the player overlaps is removed.
CollideObstaclesNoBreak(w) ==
    LET g    == w.game
        hits == {i \in 1..Len(g.obstacles) :
                    checkCollision(PlayerBody(g.player), ObstacleHitbox(g.obstacles[i]))}
        i    == SetMax(hits)
        r    == takeDamage(g.player)
        w1   == [explosion(w, PARTICLE_CONFIG.crash) EXCEPT
                    !.game.player = r.player,
                    !.ev.hit = g.obstacles[i].id,
                    !.ev.dead = r.dead]
        w2   == IF r.dead
                THEN endGame([w1 EXCEPT !.game.state = "gameOver"])
                ELSE Notify(w1, "crash")
    IN  IF hits = {} THEN w
        ELSE [w2 EXCEPT !.game.obstacles =
                 SelectSeq(g.obstacles,
                           LAMBDA o : ~checkCollision(PlayerBody(g.player), ObstacleHitbox(o)))]

\* checkCollisions, the obstacle loop: scans from the end of the array and
\* stops at the first obstacle whose hitbox the player overlaps
CollideObstacles(w) ==
    LET g    == w.game
        hits == {i \in 1..Len(g.obstacles) :
                    checkCollision(PlayerBody(g.player), ObstacleHitbox(g.obstacles[i]))}
        i    == SetMax(hits)
        r    == takeDamage(g.player)
        w1   == [explosion(w, PARTICLE_CONFIG.crash) EXCEPT
                    !.game.player = r.player,
                    !.ev.hit = g.obstacles[i].id,
                    !.ev.dead = r.dead]
        w2   == IF r.dead
                THEN endGame([w1 EXCEPT !.game.state = "gameOver"])
                ELSE Notify(w1, "crash")
    IN  IF hits = {} THEN w
        ELSE [w2 EXCEPT !.game.obstacles = RemoveAt(g.obstacles, i)]

\* checkCollisions, the power-up loop: runs after the obstacle loop whatever
\* its outcome, against the power-up's own rectangle
CollidePowerUps(w, now) ==
    LET g    == w.game
        hits == {i \in 1..Len(g.powerUps) :
                    checkCollision(PlayerBody(g.player), PowerUpBody(g.powerUps[i]))}
        i    == SetMax(hits)
        w1   == applyPowerUp(w, g.powerUps[i], now)
    IN  IF hits = {} THEN w
        ELSE explosion([w1 EXCEPT !.game.powerUps = RemoveAt(g.powerUps, i),
                                  !.ev.pickup = PowerUpType(g.powerUps[i].type).effect],
                       PARTICLE_CONFIG.sparkle)

\* Variant: checkCollisions without the early return for an invincible player.
checkCollisionsAlways(w, now) ==
    CollidePowerUps(CollideObstacles([w EXCEPT !.ev.checked = TRUE,
                                               !.ev.invAtCollision = w.game.player.invincible]),
                    now)

checkCollisions(w, now) ==
    LET w0 == [w EXCEPT !.ev.checked = TRUE, !.ev.invAtCollision = w.game.player.invincible]
    IN  IF w.game.player.invincible THEN w0
        ELSE CollidePowerUps(CollideObstacles(w0), now)

\* increaseDifficulty: the notification compares newSpeed with player.speed
\* after setSpeed(newSpeed) has run
increaseDifficulty(w) ==
    LET p        == w.game.player
        newSpeed == Min(p.speed + SPEED_INCREMENT, MAX_GAME_SPEED)
        w1       == [w EXCEPT !.game.difficulty = @ + DIFFICULTY_INCREASE_RATE]
        w2       == [w1 EXCEPT !.game.player = setSpeed(p, newSpeed)]
    IN  IF p.exists /\ p.speed < MAX_GAME_SPEED
        THEN (IF newSpeed \div 100 > w2.game.player.speed \div 100
              THEN Notify(w2, "speed") ELSE w2)
        ELSE w1

\* update, lines 415-436: player, obstacles, power-ups, particles, collisions
UpdateEntities(w, deltaTime, now) ==
    LET delta == Min(deltaTime, MAX_DELTA)
        w1 == [w EXCEPT !.ev.ran = TRUE, !.ev.delta = delta,
                        !.game.player = PlayerUpdate(@, delta)]
        w2 == updatePowerUps(updateObstacles(w1, delta), delta, now)
        w3 == [w2 EXCEPT !.game.emitters = EmittersUpdate(@),
                         !.game.particles = ParticlesUpdate(@, delta)]
    IN  checkCollisions(w3, now)

ObstacleDue(g) ==
    Exceeds(g.gameTime - g.lastObstacleTime, getObstacleSpawnInterval(g.score))

PowerUpDue(g) ==
    Exceeds(g.gameTime - g.lastPowerUpTime, getPowerUpSpawnInterval(g.score))

\* the draws of spawnObstacle and new Obstacle: lane, type, speed factor
SpeedDraws == {1200}
TypeIdxDraws == {1}
ObstacleDraws(g) ==
    IF ObstacleDue(g)
    THEN [lane : ObstacleLaneChoices(g.obstacles), typeIdx : TypeIdxDraws,
          speed : SpeedDraws]
    ELSE {NoDraw}

\* update, lines 439-442, with spawnObstacle
SpawnObstacleStep(w, od) ==
    IF ObstacleDue(w.game)
    THEN [w EXCEPT !.game.obstacles = Append(@, NewObstacle(w.nextId, od.lane, od.typeIdx, od.speed)),
                   !.nextId = @ + 1,
                   !.game.lastObstacleTime = w.game.gameTime]
    ELSE w

\* the draws of lines 446 (roll), 677 (lane), 681 (rand) and of the PowerUp
\* constructor (randIdx), each only where the code makes it
RandDraws == {10, 70, 95}
RandIdxDraws == {1, 4}
PowerUpDraws(g) ==
    IF ~PowerUpDue(g) THEN {NoDraw}
    ELSE {[roll |-> 99, lane |-> 0, rand |-> 0, randIdx |-> 1]}
         \cup (IF SafeLanes(g.obstacles) = {}
               THEN {[roll |-> 0, lane |-> 0, rand |-> 0, randIdx |-> 1]}
               ELSE {d \in [roll : {0}, lane : SafeLanes(g.obstacles), rand : RandDraws,
                            randIdx : RandIdxDraws] :
                        PowerUpOverride(g.player.lives, d.rand) # "null" => d.randIdx = 1})

\* update, lines 445-450, with spawnPowerUp: after the push, line 745 reads the
\* unbound name POWER_UP_TYPES and the ReferenceError leaves update and gameLoop
SpawnPowerUpStep(w, pd) ==
    LET g        == w.game
        interval == getPowerUpSpawnInterval(g.score) \div OBSTACLE_INTERVAL_RATE_DENOM
        deferred == [w EXCEPT !.game.lastPowerUpTime = g.gameTime - interval + POWER_UP_RETRY]
    IN  IF ~PowerUpDue(g) THEN w
        ELSE IF pd.roll >= POWER_UP_SPAWN_CHANCE
             THEN [w EXCEPT !.game.lastPowerUpTime = g.gameTime]
        ELSE IF SafeLanes(g.obstacles) = {}
             THEN [deferred EXCEPT !.game.lastPowerUpTime = g.gameTime]
        ELSE [w EXCEPT !.game.powerUps =
                           Append(@, NewPowerUp(pd.lane, PowerUpOverride(g.player.lives, pd.rand),
                                                pd.randIdx)),
                       !.game.timeSinceLastPowerUpType.defined = TRUE,
                       !.ev.threw = TRUE]

\* Variant: update that accrues score for the whole deltaTime, without the 0.1 s limit.
UpdateScoreUnclamped(w, deltaTime) ==
    LET delta == deltaTime
        g     == w.game
        w1    == IF g.gameTime - g.lastSpeedIncreaseTime > SPEED_INCREASE_INTERVAL
                 THEN [increaseDifficulty(w) EXCEPT !.game.lastSpeedIncreaseTime = g.gameTime]
                 ELSE w
        gain  == (delta * w1.game.player.speed * w1.game.scoreMultiplier * SCORE_MULTIPLIER)
                     \div 1000000
        score == w1.game.score + gain
        w2    == [w1 EXCEPT !.game.score = score]
        w3    == IF score \div 1000 > g.previousScore \div 1000 THEN Notify(w2, "milestone") ELSE w2
    IN  IF w.ev.threw THEN w ELSE [w3 EXCEPT !.game.previousScore = score]

\* update, lines 453-474: escalation, score accrual, milestone
UpdateScore(w, deltaTime) ==
    LET delta == Min(deltaTime, MAX_DELTA)
        g     == w.game
        w1    == IF g.gameTime - g.lastSpeedIncreaseTime > SPEED_INCREASE_INTERVAL
                 THEN [increaseDifficulty(w) EXCEPT !.game.lastSpeedIncreaseTime = g.gameTime]
                 ELSE w
        gain  == (delta * w1.game.player.speed * w1.game.scoreMultiplier * SCORE_MULTIPLIER)
                     \div 1000000
        score == w1.game.score + gain
        w2    == [w1 EXCEPT !.game.score = score]
        w3    == IF score \div 1000 > g.previousScore \div 1000 THEN Notify(w2, "milestone") ELSE w2
    IN  IF w.ev.threw THEN w ELSE [w3 EXCEPT !.game.previousScore = score]

\* update(deltaTime): every world one call can end in
update(w, deltaTime, now) ==
    LET w1 == UpdateEntities(w, deltaTime, now)
    IN  UNION { LET w2 == SpawnObstacleStep(w1, od)
                IN  {UpdateScore(SpawnPowerUpStep(w2, pd), deltaTime) : pd \in PowerUpDraws(w2.game)}
              : od \in ObstacleDraws(w1.game) }

\* gameLoop(timestamp): every world one call can end in
gameLoop(w, timestamp, now) ==
    LET g         == w.game
        deltaTime == IF g.gameTime > 0 THEN timestamp - g.gameTime ELSE NOMINAL_DELTA
        scaled    == (deltaTime * g.timeScale) \div 100
        w1        == [w EXCEPT !.game.gameTime = timestamp, !.ev.deltaTime = deltaTime]
    IN  IF g.state # "playing" THEN {w}
        ELSE {IF x.ev.threw THEN x ELSE requestAnimationFrame(x) : x \in update(w1, scaled, now)}

\* Variant: startGame that leaves the score multiplier and the time scale.
startGameKeepsModifiers(w, now) ==
    LET g  == w.game
        w1 == [w EXCEPT !.game = [g EXCEPT
                  !.score = 0, !.previousScore = 0, !.gameTime = 0,
                  !.lastObstacleTime = 0, !.lastSpeedIncreaseTime = 0, !.lastPowerUpTime = 0,
                  !.difficulty = 10000,
                  !.obstacles = <<>>, !.powerUps = <<>>, !.particles = <<>>, !.emitters = 0,
                  !.player = NewPlayer],
                  !.timers = {[tm EXCEPT !.stale = TRUE] : tm \in @}]
    IN  gameLoop(cancelAnimationFrame(Notify(w1, "start")), 0, now)

\* startGame: reset, new Player, cancel without clearing animationId, gameLoop(0)
startGame(w, now) ==
    LET g  == w.game
        w1 == [w EXCEPT !.game = [g EXCEPT
                  !.score = 0, !.previousScore = 0, !.gameTime = 0,
                  !.lastObstacleTime = 0, !.lastSpeedIncreaseTime = 0, !.lastPowerUpTime = 0,
                  !.timeScale = 100, !.scoreMultiplier = 1, !.difficulty = 10000,
                  !.obstacles = <<>>, !.powerUps = <<>>, !.particles = <<>>, !.emitters = 0,
                  !.player = NewPlayer],
                  !.timers = {[tm EXCEPT !.stale = TRUE] : tm \in @}]
    IN  gameLoop(cancelAnimationFrame(Notify(w1, "start")), 0, now)

\* resumeGame: this.state = PLAYING; this.gameLoop(0)
resumeGame(w, now) == gameLoop([w EXCEPT !.game.state = "playing"], 0, now)

\* setState(newState) for the three states a command can ask for
setState(w, newState, now) ==
    LET w1 == [w EXCEPT !.game.state = newState]
    IN  CASE newState = "menu"    -> {showMenu(w1)}
          [] newState = "playing" -> startGame(w1, now)
          [] newState = "paused"  -> {pauseGame(w1)}

\* Variant: handleInput that checks for a player but not for the mode.
handleInputAnyMode(w, input) ==
    LET p == w.game.player
    IN  IF ~p.exists THEN w
        ELSE [w EXCEPT !.game.player =
                 CASE input = "left"       -> moveLeft(p)
                   [] input = "right"      -> moveRight(p)
                   [] input = "accelerate" -> accelerate(p)
                   [] input = "decelerate" -> decelerate(p)]

\* handleInput(input)
handleInput(w, input) ==
    LET p == w.game.player
    IN  IF w.game.state # "playing" \/ ~p.exists THEN w
        ELSE [w EXCEPT !.game.player =
                 CASE input = "left"       -> moveLeft(p)
                   [] input = "right"      -> moveRight(p)
                   [] input = "accelerate" -> accelerate(p)
                   [] input = "decelerate" -> decelerate(p)]

\* setDifficulty: line 586 reads the unbound name DIFFICULTY_PRESETS, so the
\* call ends in a ReferenceError before any assignment
setDifficulty(w, difficulty) == [w EXCEPT !.ev.threw = TRUE]

\* a setTimeout callback of applyPowerUp
TimerCallback(w, tm) ==
    IF tm.sets = "timeScale"
    THEN [w EXCEPT !.game.timeScale = 100, !.timers = @ \ {tm}]
    ELSE [w EXCEPT !.game.scoreMultiplier = 1, !.timers = @ \ {tm}]

\* ------------------------------------------------------------ state
VARIABLES game, pending, timers, nextId, steps, commands, clock, ev

vars == <<game, pending, timers, nextId, steps, commands, clock, ev>>

World(op) ==
    [game |-> game, pending |-> pending, timers |-> timers, nextId |-> nextId,
     ev |-> [NoEvent(op) EXCEPT !.from = game.state]]

Commit(w) ==
    /\ steps < MaxSteps
    /\ game' = w.game
    /\ pending' = w.pending
    /\ timers' = w.timers
    /\ nextId' = w.nextId
    /\ steps' = steps + 1
    /\ ev' = w.ev

\* requestAnimationFrame timestamps and Date.now() both read the wall clock
FrameDts == {16, 100}
PauseLengths == {5000}

\* The page after App's constructor: the engine in Menu. The stored high score
\* and the moment of the first command are the environment's.
InitMenu ==
    /\ \E hs \in {0, 500}, ns \in BOOLEAN : game = NewGame(hs, ns)
    /\ clock \in {1000, 16000}
    /\ pending = 0
    /\ timers = {}
    /\ nextId = 1
    /\ steps = 0
    /\ commands = 0
    /\ ev = NoEvent("init")

\* Entities of a run in progress, 12 s after page load (pixels from the top):
\* a car or truck about to reach the player's lane position, debris about to
\* leave the road, a power-up about to reach the player, a full top row.
CarAhead(id)    == [id |-> id, lane |-> 1, type |-> "car",    y |-> Px(430), speed |-> 1000]
TruckAhead(id)  == [id |-> id, lane |-> 1, type |-> "truck",  y |-> Px(390), speed |-> 1400]
DebrisLeaving(id) == [id |-> id, lane |-> 0, type |-> "debris", y |-> Px(590), speed |-> 1000]
TopRow == <<[id |-> 1, lane |-> 0, type |-> "car", y |-> Px(20), speed |-> 1000],
            [id |-> 2, lane |-> 1, type |-> "debris", y |-> Px(60), speed |-> 1400],
            [id |-> 3, lane |-> 2, type |-> "truck", y |-> Px(-100), speed |-> 1000]>>
PowerUpAhead(type) == [lane |-> 1, type |-> type, y |-> Px(475), lastTrailTime |-> 11950]

Field(name) ==
    CASE name = "empty"     -> [obstacles |-> <<>>, powerUps |-> <<>>, spawnsDue |-> TRUE]
      [] name = "car"       -> [obstacles |-> <<CarAhead(1)>>, powerUps |-> <<>>, spawnsDue |-> FALSE]
      [] name = "carAndLife" -> [obstacles |-> <<CarAhead(1)>>,
                                 powerUps |-> <<PowerUpAhead("extraLife")>>, spawnsDue |-> FALSE]
      [] name = "traffic"   -> [obstacles |-> <<DebrisLeaving(1), TruckAhead(2)>>,
                                powerUps |-> <<>>, spawnsDue |-> FALSE]
      [] name = "topRow"    -> [obstacles |-> TopRow, powerUps |-> <<>>, spawnsDue |-> TRUE]
      [] name \in PowerUpTypeNames ->
                               [obstacles |-> <<>>, powerUps |-> <<PowerUpAhead(name)>>,
                                spawnsDue |-> FALSE]

\* The player's condition: hurt (damage invincibility running out), shielded,
\* slowed or doubling (the effect and its timer running out)
Conditions == {"none", "hurt", "shield", "slow", "double"}

RunPlayer(lives, cond) ==
    CASE cond = "none"   -> [NewPlayer EXCEPT !.lives = lives]
      [] cond = "hurt"   -> [NewPlayer EXCEPT !.lives = lives, !.invincible = TRUE,
                                              !.invincibleTime = 110, !.lastBlinkTime = 160]
      [] cond = "shield" -> [NewPlayer EXCEPT !.lives = lives, !.invincible = TRUE,
                                              !.hasShield = TRUE, !.power = "invincibility",
                                              !.powerUpTime = 110]
      [] cond = "slow"   -> [NewPlayer EXCEPT !.lives = lives, !.power = "slowMotion",
                                              !.powerUpTime = 2520]
      [] cond = "double" -> [NewPlayer EXCEPT !.lives = lives, !.power = "doubleScore",
                                              !.powerUpTime = 40]

RunTimers(cond) ==
    CASE cond = "slow"   -> {[sets |-> "timeScale", due |-> 12040, stale |-> FALSE]}
      [] cond = "double" -> {[sets |-> "scoreMultiplier", due |-> 12040, stale |-> FALSE]}
      [] OTHER           -> {}

RunGame(ns, lives, cond, field, score) ==
    [NewGame(500, ns) EXCEPT
        !.state = "playing", !.animationId = "live",
        !.gameTime = 12000, !.score = score, !.previousScore = score,
        !.lastObstacleTime = IF field.spawnsDue THEN 10008 ELSE 11000,
        !.lastPowerUpTime = IF field.spawnsDue THEN 4008 ELSE 9000,
        !.timeScale = IF cond = "slow" THEN 50 ELSE 100,
        !.scoreMultiplier = IF cond = "double" THEN 2 ELSE 1,
        !.player = RunPlayer(lives, cond),
        !.obstacles = field.obstacles, !.powerUps = field.powerUps,
        !.timeSinceLastPowerUpType = [defined |-> field.powerUps # <<>>, types |-> {}]]

\* The runs in progress explored: lives, condition, field, score.
Scenarios ==
    {<<1, "none", "car", 20>>, <<1, "none", "car", 995>>, <<2, "none", "car", 20>>,
     <<2, "hurt", "car", 20>>, <<2, "shield", "car", 20>>, <<5, "none", "car", 20>>,
     <<1, "none", "carAndLife", 20>>, <<2, "none", "carAndLife", 20>>,
     <<2, "hurt", "carAndLife", 20>>,
     <<2, "none", "traffic", 995>>, <<2, "double", "traffic", 20>>, <<2, "slow", "traffic", 20>>,
     <<1, "none", "empty", 20>>, <<2, "none", "empty", 20>>, <<2, "slow", "empty", 20>>,
     <<2, "double", "empty", 995>>,
     <<2, "none", "topRow", 20>>,
     <<2, "none", "shield", 20>>, <<2, "none", "slowTime", 20>>,
     <<2, "none", "scoreBoost", 20>>, <<2, "none", "extraLife", 20>>,
     <<5, "none", "extraLife", 20>>, <<2, "shield", "extraLife", 20>>}

\* A run in progress with its frame callback pending. App builds the engine
\* before it installs window.notificationSystem, so the engine's
\* notificationSystem is undefined on the shipped page; an engine built after the
\* installation is explored for the scenarios that notify.
InitRun ==
    /\ \E sc \in Scenarios :
       \E ns \in (IF sc[3] \in {"car", "traffic"} THEN BOOLEAN ELSE {FALSE}) :
            /\ game = RunGame(ns, sc[1], sc[2], Field(sc[3]), sc[4])
            /\ timers = RunTimers(sc[2])
            /\ nextId = Len(Field(sc[3]).obstacles) + 1
    /\ clock = 12000
    /\ pending = 1
    /\ steps = 0
    /\ commands = 0
    /\ ev = NoEvent("init")

\* A second run, restarted 5 s ago right after a slowTime pickup whose
\* callback is still pending, 16.3 s after page load and past the first
\* escalation (undone for the speed by a decelerate command), with the run's
\* own slowTime power-up about to reach the player.
RestartedGame ==
    [RunGame(FALSE, 2, "none", Field("slowTime"), 20) EXCEPT
        !.gameTime = 16300, !.lastObstacleTime = 15300, !.lastPowerUpTime = 11600,
        !.lastSpeedIncreaseTime = 15008, !.difficulty = 10000 + DIFFICULTY_INCREASE_RATE]

InitRestarted ==
    /\ game = RestartedGame
    /\ timers = {[sets |-> "timeScale", due |-> 16340, stale |-> TRUE]}
    /\ nextId = 1
    /\ clock = 16300
    /\ pending = 1
    /\ steps = 0
    /\ commands = 0
    /\ ev = NoEvent("init")

Init == InitMenu \/ InitRun \/ InitRestarted

\* ------------------------------------------------------------ actions
\* A requestAnimationFrame callback runs gameLoop(timestamp), dt ms after the
\* previous step. Callbacks run oldest first; the last one pending is the one
\* animationId names.
Frame(dt) ==
    /\ pending > 0
    /\ clock + dt <= MaxClock
    /\ clock' = clock + dt
    /\ UNCHANGED commands
    /\ LET w  == World("frame")
           w0 == [w EXCEPT !.pending = @ - 1,
                           !.game.animationId =
                               IF pending = 1 /\ @ = "live" THEN "stale" ELSE @]
       IN  \E x \in gameLoop(w0, clock + dt, clock + dt) : Commit(x)

\* Start button (Menu), restart button (GameOver), the pause menu's restart
\* button (Paused): setState(GAME_STATES.PLAYING)
Start ==
    /\ game.state \in {"menu", "gameOver", "paused"}
    /\ UNCHANGED <<clock, commands>>
    /\ \E x \in setState(World("start"), "playing", clock) : Commit(x)

\* Variant: the pause command without the callers' state guard.
PauseUnguarded ==
    /\ UNCHANGED <<clock, commands>>
    /\ \E x \in setState(World("pause"), "paused", clock) : Commit(x)

\* Escape, the pause button, a swipe down, visibility or orientation loss call
\* setState(GAME_STATES.PAUSED) while Playing; the engine also accepts the
\* call while Paused.
Pause ==
    /\ game.state \in {"playing", "paused"}
    /\ UNCHANGED <<clock, commands>>
    /\ \E x \in setState(World("pause"), "paused", clock) : Commit(x)

\* Escape while Paused, the pause menu's resume button: resumeGame()
Resume ==
    /\ game.state = "paused"
    /\ Abs(game.player.x) <= Px(MaxDrift)
    /\ UNCHANGED <<clock, commands>>
    /\ \E x \in resumeGame(World("resume"), clock) : Commit(x)

\* The pause menu's exit button: setState(GAME_STATES.MENU)
Exit ==
    /\ game.state = "paused"
    /\ UNCHANGED <<clock, commands>>
    /\ \E x \in setState(World("exit"), "menu", clock) : Commit(x)

\* A movement or speed command from the keyboard, touch or the mobile buttons
Command(input) ==
    /\ commands < MaxCommands
    /\ commands' = commands + 1
    /\ UNCHANGED clock
    /\ Commit(handleInput([World("command") EXCEPT !.ev.input = input], input))

\* A difficulty button on the start screen
SetDifficulty(difficulty) ==
    /\ game.state = "menu"
    /\ ~ev.threw
    /\ UNCHANGED <<clock, commands>>
    /\ Commit(setDifficulty([World("setDifficulty") EXCEPT !.ev.input = difficulty], difficulty))

\* A setTimeout callback runs, at or after its due time
TimerFire(tm) ==
    /\ tm.due <= clock
    /\ UNCHANGED <<clock, commands>>
    /\ Commit(TimerCallback(World("timer"), tm))

\* Time passes with no frame callback pending (paused, in the menu, or with
\* the loop stopped)
TimePasses(dt) ==
    /\ pending = 0
    /\ steps < MaxSteps
    /\ clock + dt <= MaxClock
    /\ clock' = clock + dt
    /\ steps' = steps + 1
    /\ ev' = [NoEvent("wait") EXCEPT !.from = game.state]
    /\ UNCHANGED <<game, pending, timers, nextId, commands>>

Next ==
    \/ \E dt \in FrameDts : Frame(dt)
    \/ Start
    \/ Pause
    \/ Resume
    \/ Exit
    \/ \E input \in {"left", "right", "accelerate", "decelerate"} : Command(input)
    \/ \E d \in {"easy", "medium"} : SetDifficulty(d)
    \/ \E tm \in timers : TimerFire(tm)
    \/ \E dt \in PauseLengths : TimePasses(dt)

Spec == Init /\ [][Next]_vars

\* ------------------------------------------------------------ driving
\* A run in progress on an empty road, 12 s or 15 s after page load (the first
\* escalation falls due just after 15 s), the player settled in any lane at a
\* speed that accelerate commands reach: 1.0, 1.5^3 = 3.375 and the maximum.
DriveSpeeds == {BASE_GAME_SPEED, 3375, MAX_GAME_SPEED}
DriveClocks == {12000, 15000}
\* Frame gaps of a driven run: a regular frame and a stall of one second.
DriveDts == {16, 1000}

DrivePlayer(lane, speed) ==
    [NewPlayer EXCEPT !.lane = lane, !.targetLane = lane, !.x = LaneX(lane, PLAYER_WIDTH),
                      !.speed = speed, !.isAccelerating = speed # BASE_GAME_SPEED]

DriveGame(lane, speed, now) ==
    [NewGame(500, FALSE) EXCEPT
        !.state = "playing", !.animationId = "live",
        !.gameTime = now, !.lastObstacleTime = now - 500, !.lastPowerUpTime = now - 1000,
        !.player = DrivePlayer(lane, speed)]

InitDrive ==
    /\ \E lane \in 0..(LANE_COUNT - 1), speed \in DriveSpeeds, now \in DriveClocks :
            game = DriveGame(lane, speed, now) /\ clock = now
    /\ pending = 1
    /\ timers = {}
    /\ nextId = 1
    /\ steps = 0
    /\ commands = 0
    /\ ev = NoEvent("init")

\* A run in progress whose player, in lane 1 with 1 or 3 lives, overlaps a car
\* and the debris that caught up with it, and two power-ups as well: more at
\* once than a run brings under the player, so that each loop of
\* checkCollisions meets several candidates.
CrowdedObstacles ==
    <<[id |-> 1, lane |-> 1, type |-> "car",    y |-> Px(500), speed |-> 1000],
      [id |-> 2, lane |-> 1, type |-> "debris", y |-> Px(520), speed |-> 1400],
      [id |-> 3, lane |-> 0, type |-> "truck",  y |-> Px(450), speed |-> 1000]>>

CrowdedPowerUps ==
    {<<[lane |-> 1, type |-> "slowTime", y |-> Px(530), lastTrailTime |-> -1],
       [lane |-> 1, type |-> "scoreBoost", y |-> Px(540), lastTrailTime |-> -1]>>,
     <<[lane |-> 1, type |-> "shield", y |-> Px(530), lastTrailTime |-> 11950],
       [lane |-> 1, type |-> "extraLife", y |-> Px(540), lastTrailTime |-> 11950]>>}

InitCrowded ==
    /\ \E lives \in {1, STARTING_LIVES}, pus \in CrowdedPowerUps :
            game = [DriveGame(1, BASE_GAME_SPEED, 12000) EXCEPT
                       !.player.lives = lives, !.obstacles = CrowdedObstacles,
                       !.powerUps = pus, !.timeSinceLastPowerUpType.defined = TRUE]
    /\ clock = 12000
    /\ pending = 1
    /\ timers = {}
    /\ nextId = Len(CrowdedObstacles) + 1
    /\ steps = 0
    /\ commands = 0
    /\ ev = NoEvent("init")

\* Driving, from a run in progress or from the start screen with its
\* difficulty buttons.
NextDrive ==
    \/ \E dt \in DriveDts : Frame(dt)
    \/ \E input \in {"left", "right", "accelerate", "decelerate"} : Command(input)
    \/ Start
    \/ \E d \in {"easy", "medium", "hard"} : SetDifficulty(d)

InitDriving == InitDrive \/ InitMenu \/ InitCrowded

SpecDrive == InitDriving /\ [][NextDrive]_vars

\* ------------------------------------------------------------ spawning
\* The spawn steps of update (lines 439-442 and 445-450) and its score accrual
\* (lines 453-474), each applied on its own to a run in which both spawns are
\* due: scores on both sides of the point where the obstacle interval reaches
\* its minimum (BASE - score * RATE = MIN at score 150,000,000), and roads
\* whose lanes are all safe, partly safe, at the 150 px limit, or all unsafe.
ScoreSamples == {-100, 0, 20, 149999999, 150000000, 200000000}

SpawnFields ==
    {<<>>, <<CarAhead(1)>>, TopRow, SubSeq(TopRow, 1, 2),
     <<[id |-> 1, lane |-> 0, type |-> "car", y |-> Px(SAFE_DISTANCE), speed |-> 1000],
       [id |-> 2, lane |-> 2, type |-> "car", y |-> Px(SAFE_DISTANCE) - 1, speed |-> 1000]>>}

\* the draws of lines 446, 677, 681 and of the PowerUp constructor, with the
\* values on both sides of every threshold
SpawnRolls == {0, POWER_UP_SPAWN_CHANCE - 1, POWER_UP_SPAWN_CHANCE, 99}
SpawnRands == {0, 39, 40, 59, 60, 79, 80, 89, 90, 99}

SpawnPowerUpDraws(g) ==
    LET lanes == IF SafeLanes(g.obstacles) = {} THEN {0} ELSE SafeLanes(g.obstacles)
    IN  {d \in [roll : SpawnRolls, lane : lanes, rand : SpawnRands,
                 randIdx : 1..Len(POWER_UP_TYPES)] :
            /\ (d.roll >= POWER_UP_SPAWN_CHANCE \/ SafeLanes(g.obstacles) = {})
                   => (d.lane = SetMax(lanes) /\ d.rand = 0 /\ d.randIdx = 1)
            /\ PowerUpOverride(g.player.lives, d.rand) # "null" => d.randIdx = 1}

SpawnGame(score, obstacles, lives) ==
    [RunGame(FALSE, lives, "none", Field("empty"), score) EXCEPT
        !.obstacles = obstacles, !.lastObstacleTime = 9000, !.lastPowerUpTime = 3000]

\* spawnedBefore: whether an earlier spawnPowerUp has created the per-type
\* history object (line 741), in this run or in a run before it.
InitSpawn ==
    /\ \E score \in ScoreSamples, obstacles \in SpawnFields, lives \in {1, 2},
          spawnedBefore \in BOOLEAN :
            /\ game = [SpawnGame(score, obstacles, lives) EXCEPT
                          !.timeSinceLastPowerUpType.defined = spawnedBefore]
            /\ nextId = Len(obstacles) + 1
    /\ clock = 12000
    /\ pending = 1
    /\ timers = {}
    /\ steps = 0
    /\ commands = 0
    /\ ev = NoEvent("init")

\* The steps are taken in update's order, each at most once.
\* update, lines 439-442
SpawnObstacle ==
    /\ ev.op = "init"
    /\ ObstacleDue(game)
    /\ UNCHANGED <<clock, commands>>
    /\ \E od \in ObstacleDraws(game) :
          Commit(SpawnObstacleStep([World("spawnObstacle") EXCEPT !.ev.draw = od], od))

\* update, lines 445-450
SpawnPowerUp ==
    /\ ev.op \in {"init", "spawnObstacle"}
    /\ PowerUpDue(game)
    /\ UNCHANGED <<clock, commands>>
    /\ \E pd \in SpawnPowerUpDraws(game) :
          Commit(SpawnPowerUpStep(
                     [World("spawnPowerUp") EXCEPT
                         !.ev.draw = pd,
                         !.ev.spawnedBefore = game.timeSinceLastPowerUpType.defined],
                     pd))

\* update, lines 453-474, for a frame of dt ms
Accrue(dt) ==
    /\ ev.op # "accrue"
    /\ ~ev.threw
    /\ UNCHANGED <<clock, commands>>
    /\ Commit(UpdateScore(World("accrue"), dt))

NextSpawn ==
    \/ SpawnObstacle
    \/ SpawnPowerUp
    \/ \E dt \in FrameDts : Accrue(dt)

SpecSpawn == InitSpawn /\ [][NextSpawn]_vars

\* ------------------------------------------------------------ particles
\* The particle system on its own, under any sequence of explosions and
\* updates: from an empty list, and from lists that crash, sparkle and trail
\* bursts have filled to 90, 97 and MAX_PARTICLES particles (oldest first).
Burst(n, age, lifetime) == [n |-> n, age |-> age, lifetime |-> lifetime]

ParticleLists ==
    {<<>>,
     <<Burst(30, 232, 1000), Burst(30, 132, 1000), Burst(30, 32, 1000)>>,
     <<Burst(27, 548, 1000), Burst(30, 448, 1000), Burst(30, 348, 1000),
       Burst(10, 32, 600)>>,
     <<Burst(30, 932, 1000), Burst(30, 516, 1000), Burst(10, 500, 600),
       Burst(30, 16, 1000)>>}

ParticleConfigs == {PARTICLE_CONFIG.crash, PARTICLE_CONFIG.sparkle, TrailParticleConfig}

InitParticles ==
    /\ \E ps \in ParticleLists :
            game = [DriveGame(1, BASE_GAME_SPEED, 12000) EXCEPT !.particles = ps]
    /\ clock = 12000
    /\ pending = 1
    /\ timers = {}
    /\ nextId = 1
    /\ steps = 0
    /\ commands = 0
    /\ ev = NoEvent("init")

\* particleSystem.explosion(x, y, config)
Explosion(cfg) ==
    /\ UNCHANGED <<clock, commands>>
    /\ Commit(explosion([World("explosion") EXCEPT !.ev.draw = cfg], cfg))

\* particleSystem.update(delta)
ParticleSystemUpdate(dt) ==
    /\ UNCHANGED <<clock, commands>>
    /\ Commit([World("particles") EXCEPT
                  !.ev.delta = dt,
                  !.game.emitters = EmittersUpdate(@),
                  !.game.particles = ParticlesUpdate(@, dt)])

NextParticles ==
    \/ \E cfg \in ParticleConfigs : Explosion(cfg)
    \/ \E dt \in FrameDts : ParticleSystemUpdate(dt)

SpecParticles == InitParticles /\ [][NextParticles]_vars

\* ------------------------------------------------------------ overlap test
\* checkCollision applied on its own to every pair of rectangles with
\* positive width and height on a small grid: apart, sharing an edge or a
\* corner, overlapping, equal, one inside the other. ev.draw holds the two
\* arguments, then the arguments with the results in both orders.
GridRects == {Rect(x, y, w, h) : x \in 0..2, y \in 0..2, w \in 1..2, h \in 1..2}

InitOverlap ==
    /\ game = NewGame(0, FALSE)
    /\ \E a \in GridRects, b \in GridRects :
            ev = [NoEvent("init") EXCEPT !.draw = [a |-> a, b |-> b]]
    /\ clock = 1000
    /\ pending = 0
    /\ timers = {}
    /\ nextId = 1
    /\ steps = 0
    /\ commands = 0

\* checkCollision(a, b) and checkCollision(b, a)
CheckCollision ==
    /\ ev.op = "init"
    /\ UNCHANGED <<clock, commands>>
    /\ Commit([World("checkCollision") EXCEPT
                  !.ev.draw = [a |-> ev.draw.a, b |-> ev.draw.b,
                               ab |-> checkCollision(ev.draw.a, ev.draw.b),
                               ba |-> checkCollision(ev.draw.b, ev.draw.a)]])

NextOverlap == CheckCollision

SpecOverlap == InitOverlap /\ [][NextOverlap]_vars

\* ------------------------------------------------------------ steady play
\* A run started SteadyStart ms after page load and left alone: frame
\* callbacks 16 ms apart, no command, until SteadyEnd.
SteadyStart == 1000
SteadyEnd == 2600

InitSteady ==
    /\ \E hs \in {0, 500}, ns \in BOOLEAN :
          \E x \in setState([game |-> NewGame(hs, ns), pending |-> 0, timers |-> {},
                             nextId |-> 1, ev |-> NoEvent("start")], "playing", SteadyStart) :
              /\ game = x.game /\ pending = x.pending /\ timers = x.timers
              /\ nextId = x.nextId /\ ev = x.ev
    /\ clock = SteadyStart
    /\ steps = 0
    /\ commands = 0

\* A requestAnimationFrame callback 16 ms after the previous one
SteadyFrame ==
    /\ pending > 0
    /\ clock + NOMINAL_DELTA <= SteadyEnd
    /\ clock' = clock + NOMINAL_DELTA
    /\ UNCHANGED <<commands, steps>>
    /\ LET w  == World("frame")
           w0 == [w EXCEPT !.pending = @ - 1,
                           !.game.animationId =
                               IF pending = 1 /\ @ = "live" THEN "stale" ELSE @]
       IN  \E x \in gameLoop(w0, clock + NOMINAL_DELTA, clock + NOMINAL_DELTA) :
               /\ game' = x.game /\ pending' = x.pending /\ timers' = x.timers
               /\ nextId' = x.nextId /\ ev' = x.ev

NextSteady == SteadyFrame

\* The browser runs every requested frame callback.
SpecSteady == InitSteady /\ [][NextSteady]_vars /\ WF_vars(SteadyFrame)

\* ------------------------------------------------------------ properties
Mode == game.state

\* C1, as the code has it: the constructor leaves the mode Menu, and every
\* change of mode is one of these seven: Menu->Playing (start), Playing->Paused
\* (pause), Paused->Playing (resume), Playing->GameOver (a collision that
\* takeDamage reports as fatal), GameOver->Playing (restart), Paused->Menu (the
\* pause menu's exit) and Paused->Playing through a full reset (the pause
\* menu's restart). A fatal collision in the frame resumeGame runs itself
\* shows as Paused->GameOver.
ModeChangeOfTheSpec ==
    \/ Mode = "menu"     /\ Mode' = "playing"  /\ ev'.op = "start"
    \/ Mode = "playing"  /\ Mode' = "paused"   /\ ev'.op = "pause"
    \/ Mode = "paused"   /\ Mode' = "playing"  /\ ev'.op = "resume"
    \/ Mode = "playing"  /\ Mode' = "gameOver" /\ ev'.dead
    \/ Mode = "gameOver" /\ Mode' = "playing"  /\ ev'.op = "start"

ModeChangeOfThePauseMenu ==
    \/ Mode = "paused" /\ Mode' = "menu"     /\ ev'.op = "exit"
    \/ Mode = "paused" /\ Mode' = "playing"  /\ ev'.op = "start"
    \/ Mode = "paused" /\ Mode' = "gameOver" /\ ev'.op = "resume" /\ ev'.dead

ConstructedInMenu == \A hs \in {0, 500}, ns \in BOOLEAN : NewGame(hs, ns).state = "menu"

C2_StartResets ==
    ev.op = "start" =>
        /\ Mode = "playing"
        /\ game.score = 0 /\ game.scoreMultiplier = 1 /\ game.timeScale = 100
        /\ game.difficulty = 10000
        /\ game.lastObstacleTime = 0 /\ game.lastPowerUpTime = 0
        /\ game.lastSpeedIncreaseTime = 0
        /\ game.timeSinceLastPowerUpType.types = {}
        /\ game.obstacles = <<>> /\ game.powerUps = <<>> /\ game.particles = <<>>
        /\ game.player.exists
        /\ game.player.lane = 1 /\ game.player.targetLane = 1
        /\ game.player.lives = STARTING_LIVES /\ game.player.speed = BASE_GAME_SPEED
        /\ ~game.player.invincible /\ ~game.player.hasShield /\ game.player.power = "null"

\* C2: a restart from the pause menu of a run that had slow motion or double
\* score running.
C2_RestartedFromPause == ev.op = "start" /\ ev.from = "paused" /\ timers # {}

\* C3 as stated: the update resumeGame runs has the nominal delta of 16 ms,
\* so it lowers no score, moves no obstacle or power-up up and lengthens no
\* player timer.
C3_ResumeIsOneNominalFrame ==
    [][ev'.op = "resume" =>
          /\ ev'.deltaTime = NOMINAL_DELTA
          /\ game'.score >= game.score
          /\ \A i \in 1..Len(game.obstacles) : \A j \in 1..Len(game'.obstacles) :
                game'.obstacles[j].id = game.obstacles[i].id
                    => game'.obstacles[j].y >= game.obstacles[i].y
          /\ game'.player.invincibleTime <= game.player.invincibleTime
          /\ game'.player.powerUpTime <= game.player.powerUpTime]_vars

\* C3: a resume of a run whose last frame had a timestamp above 0.
C3_ResumedMidRun == ev.op = "resume" /\ ev.ran /\ ev.deltaTime < 0

\* C4 as stated: no step taken while Paused and leaving the mode Paused
\* changes the score, the multiplier, the time scale, the difficulty, the
\* player or any obstacle or power-up.
C4_PausedIsFrozen ==
    [][Mode = "paused" /\ Mode' = "paused" =>
          /\ game'.score = game.score
          /\ game'.scoreMultiplier = game.scoreMultiplier
          /\ game'.timeScale = game.timeScale
          /\ game'.difficulty = game.difficulty
          /\ game'.player = game.player
          /\ game'.obstacles = game.obstacles
          /\ game'.powerUps = game.powerUps]_vars

\* C4: a setTimeout callback of a power-up has run while the mode was Paused.
C4_TimerRanWhilePaused == ev.op = "timer" /\ ev.from = "paused"

\* C5: a pause command given while Paused changes nothing of the engine, of
\* the pending timers or of the pending frame callbacks, of which there is none.
C5_SecondPauseIsNoOp ==
    [][Mode = "paused" /\ ev'.op = "pause" =>
          /\ game' = game
          /\ timers' = timers
          /\ pending' = 0 /\ pending = 0]_vars

\* C5: a pause command was given while Paused.
C5_PausedTwice == ev.op = "pause" /\ ev.from = "paused" /\ Mode = "paused"

\* C6: in every reachable state the player's lives are at least 0 and at most 5.
C6_LivesInRange ==
    game.player.exists => game.player.lives >= 0 /\ game.player.lives <= MAX_LIVES

\* C6: an extra life was picked up by a player who already had 5 lives.
C6_ExtraLifeAtFive ==
    ev.pickup = "addLife" /\ game.player.lives = MAX_LIVES /\ game.player.power = "addLife"
        /\ game.particles # <<>> /\ ev.hit = 0

\* C7: GameOver is entered exactly when takeDamage takes the last life, in the
\* handler that ran the collision; a step that leaves the mode Playing leaves a
\* life; while the mode is GameOver no update runs, and only a start command
\* leaves GameOver.
C7_GameOverOnceFromLastLife ==
    [][/\ ev'.dead => Mode' = "gameOver" /\ Mode # "gameOver" /\ game.player.lives = 1
       /\ (Mode' = "gameOver" /\ Mode # "gameOver") => ev'.dead /\ ev'.hit # 0 /\ ev'.ran
       /\ Mode' = "playing" => game'.player.lives >= 1
       /\ Mode = "gameOver" => ev'.op = "start" \/ ~ev'.ran
       /\ (Mode = "gameOver" /\ Mode' # "gameOver") => ev'.op = "start"]_vars

\* C7: the frame callback the fatal frame had requested ran in GameOver and
\* returned at gameLoop's guard.
C7_FrameIgnoredInGameOver ==
    Mode = "gameOver" /\ ev.op = "frame" /\ ev.from = "gameOver" /\ ~ev.ran
        /\ game.player.lives = 0 /\ pending = 0

\* C8 as stated: a collision of a player with L >= 2 lives leaves L - 1 lives,
\* invincibility for INVINCIBILITY_DURATION, the obstacle removed, the mode
\* Playing, and sends exactly one damage notification.
C8_NonFatalCollision ==
    [][ev'.hit # 0 /\ game.player.lives >= 2 =>
          /\ game'.player.lives = game.player.lives - 1
          /\ game'.player.invincible
          /\ game'.player.invincibleTime = INVINCIBILITY_DURATION
          /\ \A j \in 1..Len(game'.obstacles) : game'.obstacles[j].id # ev'.hit
          /\ Mode' = "playing"
          /\ Cardinality({k \in 1..Len(ev'.notes) : ev'.notes[k] = "crash"}) = 1]_vars

\* C8: a collision that was not fatal.
C8_Collided == ev.hit # 0 /\ ~ev.dead /\ game.player.invincible

\* C9: when checkCollisions finds the player invincible, the handler changes
\* neither lives, time scale nor multiplier, processes no hit and no pickup, and
\* every obstacle and power-up is still there unless it left the road.
C9_InvincibleSkipsCollisions ==
    [][ev'.checked /\ ev'.invAtCollision =>
          /\ game'.player.lives = game.player.lives
          /\ ev'.hit = 0 /\ ev'.pickup = "none" /\ ~ev'.dead
          /\ game'.timeScale = game.timeScale
          /\ game'.scoreMultiplier = game.scoreMultiplier
          /\ \A i \in 1..Len(game.obstacles) :
                LET o == ObstacleUpdate(game.obstacles[i], ev'.delta, game.player.speed,
                                        game.timeScale)
                IN  OffScreen(o) \/ \E j \in 1..Len(game'.obstacles) : game'.obstacles[j] = o
          /\ \A i \in 1..Len(game.powerUps) :
                LET y == game.powerUps[i].y
                           + PowerUpFall(ev'.delta, game.player.speed, game.timeScale)
                IN  y > Px(CanvasHeight)
                    \/ \E j \in 1..Len(game'.powerUps) :
                          /\ game'.powerUps[j].y = y
                          /\ game'.powerUps[j].type = game.powerUps[i].type
                          /\ game'.powerUps[j].lane = game.powerUps[i].lane]_vars

\* C9: checkCollisions returned early for an invincible player who overlaps an
\* obstacle's hitbox and a power-up.
C9_OverlapWhileInvincible ==
    /\ ev.checked /\ ev.invAtCollision
    /\ \E i \in 1..Len(game.obstacles) :
          checkCollision(PlayerBody(game.player), ObstacleHitbox(game.obstacles[i]))
    /\ \E i \in 1..Len(game.powerUps) :
          checkCollision(PlayerBody(game.player), PowerUpBody(game.powerUps[i]))

\* C10 as stated: within a run no step that leaves the mode Playing lowers the
\* score, and the score is never negative.
C10_ScoreNeverDrops ==
    [][ev'.op # "start" /\ Mode' = "playing" =>
          game'.score >= game.score /\ game'.score >= 0]_vars

\* C10: a frame that ran update while Playing and raised the score.
C10_ScoreRose == ev.op = "frame" /\ ev.ran /\ Mode = "playing" /\ game.score > 995

\* The frame of the C11 scenario: gameLoop measured one second since the last
\* frame, at speed 1.0 before and after, multiplier 1, time scale 1, 3 lives,
\* score 0, no obstacle on the road, and update ran to its end.
C11_OneSecondFrame ==
    /\ ev'.op = "frame" /\ ev'.ran /\ ~ev'.threw /\ ev'.deltaTime = 1000
    /\ game.score = 0 /\ game.player.lives = STARTING_LIVES
    /\ game.player.speed = BASE_GAME_SPEED /\ game'.player.speed = BASE_GAME_SPEED
    /\ game.scoreMultiplier = 1 /\ game.timeScale = 100
    /\ game.obstacles = <<>>

C12_DoubleScoreLastsSimulatedDuration ==
    [][/\ ev'.pickup = "doubleScore" =>
              /\ game'.scoreMultiplier = 2
              /\ game'.player.power = "doubleScore"
              /\ game'.player.powerUpTime = PowerUpType("scoreBoost").duration
       /\ (game.scoreMultiplier = 2 /\ game'.scoreMultiplier = 1 /\ ev'.op # "start") =>
              ~(game.player.power = "doubleScore" /\ game.player.powerUpTime > 0)]_vars

\* C12: a doubleScore power-up was picked up and the multiplier is 2.
C12_DoubleScorePicked ==
    ev.pickup = "doubleScore" /\ game.scoreMultiplier = 2 /\ timers # {}

\* C13 as stated: a callback that a previous run scheduled changes neither the
\* time scale nor the score multiplier when it runs.
C13_StaleCallbackChangesNothing ==
    [][\A tm \in timers :
          (tm.stale /\ ev'.op = "timer" /\ timers' = timers \ {tm}) =>
              /\ game'.timeScale = game.timeScale
              /\ game'.scoreMultiplier = game.scoreMultiplier]_vars

\* C13: a callback of the previous run is pending while the new run has its
\* own slow motion running.
C13_StaleCallbackPendingInNewRun ==
    /\ Mode = "playing" /\ game.timeScale = 50
    /\ \E tm \in timers : tm.stale /\ tm.sets = "timeScale"
    /\ \E tm \in timers : ~tm.stale /\ tm.sets = "timeScale"

\* C14: a movement or speed command received while the mode is not Playing,
\* or before a player exists, raises no error and changes nothing of the
\* engine, of the pending timers or of the pending frame callbacks.
C14_CommandsIgnoredOutsidePlaying ==
    [][(ev'.op = "command" /\ (Mode # "playing" \/ ~game.player.exists)) =>
          /\ game' = game
          /\ timers' = timers
          /\ pending' = pending
          /\ ~ev'.threw]_vars

\* C14: a movement command was received while Paused, with a player that a
\* command could have moved.
C14_CommandWhilePaused ==
    /\ ev.op = "command" /\ ev.input \in {"left", "right"} /\ ev.from = "paused"
    /\ Mode = "paused" /\ game.player.exists /\ game.player.targetLane = 1

\* C15: the player's target lane and committed lane are always in
\* 0..LANE_COUNT-1; a left command at target lane 0 and a right command at
\* target lane LANE_COUNT-1 leave the target lane unchanged.
C15_LanesInRange ==
    /\ [](game.player.exists =>
            /\ game.player.targetLane \in 0..(LANE_COUNT - 1)
            /\ game.player.lane \in 0..(LANE_COUNT - 1))
    /\ [][(ev'.op = "command" /\ game.player.exists) =>
            /\ (ev'.input = "left" /\ game.player.targetLane = 0)
                   => game'.player.targetLane = 0
            /\ (ev'.input = "right" /\ game.player.targetLane = LANE_COUNT - 1)
                   => game'.player.targetLane = LANE_COUNT - 1]_vars

\* C15: a left command was received while Playing by a player settled in lane 0.
C15_LeftAtLeftmostLane ==
    /\ ev.op = "command" /\ ev.input = "left" /\ ev.from = "playing"
    /\ game.player.targetLane = 0 /\ game.player.lane = 0
    /\ game.player.x = LaneX(0, PLAYER_WIDTH)

\* C16: in every reachable state with a player, BASE_GAME_SPEED <= player
\* speed <= MAX_GAME_SPEED.
C16_SpeedInRange ==
    game.player.exists =>
        game.player.speed >= BASE_GAME_SPEED /\ game.player.speed <= MAX_GAME_SPEED

\* C16: an accelerate command has brought the speed to the maximum, which
\* the factor 1.5 alone would have passed.
C16_AcceleratedToMaximum ==
    /\ ev.op = "command" /\ ev.input = "accelerate" /\ ev.from = "playing"
    /\ game.player.speed = MAX_GAME_SPEED /\ game.player.isAccelerating

\* C17: the obstacle spawn interval is never below MIN_OBSTACLE_INTERVAL and
\* is non-increasing in the score: against every sampled score, and along
\* every step that raises the score.
C17_IntervalNonIncreasingAboveMinimum ==
    /\ [](/\ getObstacleSpawnInterval(game.score)
                >= MIN_OBSTACLE_INTERVAL * OBSTACLE_INTERVAL_RATE_DENOM
           /\ \A s \in ScoreSamples :
                /\ s < game.score =>
                      getObstacleSpawnInterval(game.score) <= getObstacleSpawnInterval(s)
                /\ game.score < s =>
                      getObstacleSpawnInterval(s) <= getObstacleSpawnInterval(game.score))
    /\ [][game'.score > game.score =>
              getObstacleSpawnInterval(game'.score) <= getObstacleSpawnInterval(game.score)]_vars

\* C17: the score has risen to the point where the interval reaches its minimum.
C17_ScoreReachedMinimumInterval ==
    /\ ev.op = "accrue" /\ game.score = 150000000 /\ game.previousScore = 150000000
    /\ getObstacleSpawnInterval(game.score)
           = MIN_OBSTACLE_INTERVAL * OBSTACLE_INTERVAL_RATE_DENOM
    /\ getObstacleSpawnInterval(game.score - 1)
           > MIN_OBSTACLE_INTERVAL * OBSTACLE_INTERVAL_RATE_DENOM

\* the obstacle a spawn step has appended
SpawnedObstacle == game'.obstacles[Len(game'.obstacles)]

\* C18: a spawned obstacle is placed in a lane that holds no obstacle with
\* y < 150 whenever there is such a lane; it is placed in an unsafe lane only
\* when every lane holds an obstacle with y < 150.
C18_ObstacleSpawnsInSafeLane ==
    [][ev'.op = "spawnObstacle" =>
          /\ Len(game'.obstacles) = Len(game.obstacles) + 1
          /\ SubSeq(game'.obstacles, 1, Len(game.obstacles)) = game.obstacles
          /\ SpawnedObstacle.lane \in 0..(LANE_COUNT - 1)
          /\ SafeLanes(game.obstacles) # {} => SpawnedObstacle.lane \in SafeLanes(game.obstacles)
          /\ SpawnedObstacle.lane \in RecentLanes(game.obstacles)
                 => RecentLanes(game.obstacles) = 0..(LANE_COUNT - 1)]_vars

\* C18: an obstacle was spawned in the lane whose obstacle is exactly at
\* y = 150, on a road whose lane 2 holds an obstacle just above that limit.
C18_SpawnedBesideUnsafeLane ==
    /\ ev.op = "spawnObstacle" /\ Len(game.obstacles) = 3
    /\ game.obstacles[1].lane = 0 /\ game.obstacles[1].y = Px(SAFE_DISTANCE)
    /\ game.obstacles[2].lane = 2 /\ game.obstacles[2].y < Px(SAFE_DISTANCE)
    /\ game.obstacles[3].lane = 0
    /\ game.obstacles[3].y = Px(-OBSTACLE_TYPES[1].height)

\* C19 as stated: when a power-up spawn is due and passes the roll but no lane
\* is safe, no power-up is spawned and the last-power-up timestamp becomes
\* gameTime - powerUpInterval + 1000; a spawned power-up is in a safe lane.
C19_UnsafeSpawnIsDeferred ==
    [][ev'.op = "spawnPowerUp" /\ ev'.draw.roll < POWER_UP_SPAWN_CHANCE =>
          /\ SafeLanes(game.obstacles) = {} =>
                /\ game'.powerUps = game.powerUps
                /\ game'.lastPowerUpTime =
                       game.gameTime
                         - getPowerUpSpawnInterval(game.score) \div OBSTACLE_INTERVAL_RATE_DENOM
                         + POWER_UP_RETRY
          /\ Len(game'.powerUps) > Len(game.powerUps) =>
                game'.powerUps[Len(game'.powerUps)].lane \in SafeLanes(game.obstacles)]_vars

\* C19: a power-up spawn passed the roll on a road without a safe lane.
C19_RollPassedWithoutSafeLane ==
    /\ ev.op = "spawnPowerUp" /\ ev.draw.roll < POWER_UP_SPAWN_CHANCE
    /\ SafeLanes(game.obstacles) = {} /\ game.powerUps = <<>> /\ ~ev.threw

\* the power-up a spawn step has appended
SpawnedPowerUp == game'.powerUps[Len(game'.powerUps)]

\* C20 as stated: a power-up spawned for a player with 1 life is extraLife for
\* r < 0.6, shield for 0.6 <= r < 0.9, and slowTime or scoreBoost for r >= 0.9.
C20_LastLifeTypeByDraw ==
    [][(/\ ev'.op = "spawnPowerUp" /\ game.player.lives = 1
        /\ Len(game'.powerUps) > Len(game.powerUps)) =>
          /\ ev'.draw.rand < 60 => SpawnedPowerUp.type = "extraLife"
          /\ (ev'.draw.rand >= 60 /\ ev'.draw.rand < 90) => SpawnedPowerUp.type = "shield"
          /\ ev'.draw.rand >= 90 => SpawnedPowerUp.type \in {"slowTime", "scoreBoost"}]_vars

\* C20: a power-up was spawned for a player with 1 life from a draw r >= 0.9.
C20_LastLifeSpawnFromHighDraw ==
    /\ ev.op = "spawnPowerUp" /\ game.player.lives = 1 /\ ev.draw.rand >= 90
    /\ ev.draw.roll < POWER_UP_SPAWN_CHANCE /\ game.powerUps # <<>>

\* this.timeSinceLastPowerUpType[type] || 0: no statement before the
\* ReferenceError of line 745 assigns an entry, so every tracked time reads 0
TrackedTime(g, type) == 0

\* The type the history-dependent thresholds give for the draw r (a
\* percentage), for tracked times ts (shield) and th (extraLife).
C21_TypesByHistory(ts, th, r) ==
    LET others == {"slowTime", "scoreBoost"}
        split(first, a, second, b) ==
            IF r < a THEN {first} ELSE IF r < a + b THEN {second} ELSE others
    IN  IF ts > 30000 /\ th > 30000 THEN split("shield", 45, "extraLife", 45)
        ELSE IF ts > 30000 THEN split("shield", 60, "extraLife", 20)
        ELSE IF th > 30000 THEN split("extraLife", 60, "shield", 20)
        ELSE split("shield", 35, "extraLife", 35)

\* C21 as stated: a power-up spawned for a player whose lives are not 1, after
\* an earlier power-up spawn, has its type chosen by the thresholds of the
\* tracked times since shield and extraLife last spawned (45/45/10, 60/20/20
\* or 35/35/30); the 40/40/20 split is used only for the first power-up ever.
C21_TypeByTrackedHistory ==
    [][(/\ ev'.op = "spawnPowerUp" /\ game.player.lives # 1
        /\ game.timeSinceLastPowerUpType.defined
        /\ Len(game'.powerUps) > Len(game.powerUps)) =>
          SpawnedPowerUp.type \in
              C21_TypesByHistory(TrackedTime(game, "shield"), TrackedTime(game, "extraLife"),
                                 ev'.draw.rand)]_vars

\* C21: a power-up was spawned for a player with 2 lives, after an earlier
\* spawn, from a draw between the thresholds 0.35 and 0.4.
C21_SpawnedAgainBetweenThresholds ==
    /\ ev.op = "spawnPowerUp" /\ ev.spawnedBefore /\ game.player.lives = 2
    /\ ev.draw.rand >= 35 /\ ev.draw.rand < 40 /\ ev.draw.roll < POWER_UP_SPAWN_CHANCE
    /\ game.powerUps # <<>>

\* the particle list, one entry per particle, oldest first
Particles(ps) ==
    LET RECURSIVE Flat(_)
        Flat(i) == IF i > Len(ps) THEN <<>>
                   ELSE [k \in 1..ps[i].n |-> [age |-> ps[i].age, lifetime |-> ps[i].lifetime]]
                            \o Flat(i + 1)
    IN  Flat(1)

\* C22: the particle list never holds more than MAX_PARTICLES particles, and
\* an explosion of k particles on a list of n removes exactly the n + k -
\* MAX_PARTICLES earliest-emitted particles (none when that is not positive),
\* one for each new particle that finds the list full, keeps every other
\* particle in order and appends the k new ones.
C22_ParticleCapEvictsOldest ==
    /\ [](ParticleCount(game.particles) <= MAX_PARTICLES)
    /\ [][ev'.op = "explosion" =>
            LET old     == Particles(game.particles)
                new     == Particles(game'.particles)
                k       == ev'.draw.count
                evicted == Max(0, Len(old) + k - MAX_PARTICLES)
            IN  /\ Len(new) = Len(old) - evicted + k
                /\ SubSeq(new, 1, Len(new) - k) = SubSeq(old, evicted + 1, Len(old))
                /\ \A i \in (Len(new) - k + 1)..Len(new) : new[i].age = 0
                /\ Len(old) = MAX_PARTICLES => evicted = k]_vars

\* C22: an explosion on a full list has evicted part of the oldest burst, and
\* the list is full again.
C22_ExplosionAtCap ==
    /\ ev.op = "explosion" /\ ParticleCount(game.particles) = MAX_PARTICLES
    /\ game.particles[1] = Burst(PARTICLE_CONFIG.crash.count - TrailParticleConfig.count, 932, 1000)
    /\ game.particles[Len(game.particles)] = Burst(TrailParticleConfig.count, 0, 600)

\* C23 as stated: a frame callback that finds the mode Playing ends without a
\* thrown error, having run update, and when it leaves the mode Playing it
\* has requested the next frame.
C23_FrameNeverThrows ==
    [][(ev'.op = "frame" /\ Mode = "playing") =>
          /\ ~ev'.threw /\ ev'.ran
          /\ Mode' = "playing" => pending' >= 1 /\ game'.animationId = "live"]_vars

\* C23: a frame has spawned a power-up; the mode is Playing and no frame
\* callback is pending.
C23_LoopStoppedBySpawn ==
    /\ ev.op = "frame" /\ ev.from = "playing" /\ ev.threw /\ ev.ran
    /\ Mode = "playing" /\ pending = 0 /\ game.powerUps # <<>>

\* C24 as stated: selecting a known preset ends without an error, and a
\* player that exists then has the preset's starting lives and base speed.
\* (The six configuration values the preset replaces are constants of this
\* module, because no execution of setDifficulty assigns them.)
C24_PresetResetsPlayer ==
    [][(ev'.op = "setDifficulty" /\ ev'.input \in DOMAIN DIFFICULTY_PRESETS) =>
          /\ ~ev'.threw
          /\ game.player.exists =>
                /\ game'.player.lives = DIFFICULTY_PRESETS[ev'.input].STARTING_LIVES
                /\ game'.player.speed = DIFFICULTY_PRESETS[ev'.input].BASE_GAME_SPEED]_vars

\* C24: the easy preset was selected on the start screen after the exit from
\* a paused run, whose player still exists with other than 5 lives.
C24_EasySelectedWithPlayer ==
    /\ ev.op = "setDifficulty" /\ ev.input = "easy" /\ Mode = "menu"
    /\ game.player.exists
    /\ game.player.lives # DIFFICULTY_PRESETS.easy.STARTING_LIVES

\* C25: for all rectangles a and b with positive width and height,
\* checkCollision(a, b) = checkCollision(b, a), and rectangles of which one
\* ends where the other begins (a.x + a.width = b.x, or a.y + a.height =
\* b.y) do not collide.
C25_OverlapSymmetricAndStrict ==
    ev.op = "checkCollision" =>
        LET a == ev.draw.a
            b == ev.draw.b
        IN  /\ a.width > 0 /\ a.height > 0 /\ b.width > 0 /\ b.height > 0
            /\ ev.draw.ab = ev.draw.ba
            /\ (a.x + a.width = b.x \/ a.y + a.height = b.y) => ~ev.draw.ab
            /\ (b.x + b.width = a.x \/ b.y + b.height = a.y) => ~ev.draw.ab

\* C25: checkCollision was applied to two rectangles side by side that share
\* a whole edge, and returned false in both orders.
C25_SharedEdge ==
    /\ ev.op = "checkCollision"
    /\ ev.draw.a.x + ev.draw.a.width = ev.draw.b.x
    /\ ev.draw.a.y = ev.draw.b.y /\ ev.draw.a.height = ev.draw.b.height
    /\ ~ev.draw.ab /\ ~ev.draw.ba

\* the obstacles of the state before a frame that neither are on the road
\* after it nor left it past the bottom edge
C26_RemovedByCollision ==
    {i \in 1..Len(game.obstacles) :
        /\ ~OffScreen(ObstacleUpdate(game.obstacles[i], ev'.delta, game.player.speed,
                                     game.timeScale))
        /\ \A j \in 1..Len(game'.obstacles) : game'.obstacles[j].id # game.obstacles[i].id}

\* the number of power-ups of the state before a frame that neither are on
\* the road after it nor left it past the bottom edge
C26_PickedUp ==
    Cardinality({i \in 1..Len(game.powerUps) :
                    ~OffScreen([y |-> game.powerUps[i].y
                                        + PowerUpFall(ev'.delta, game.player.speed,
                                                      game.timeScale)])})
        + (IF ev'.threw THEN 1 ELSE 0) - Len(game'.powerUps)

\* C26: a frame lowers the lives by at most 1, removes at most one obstacle
\* by collision (the one recorded as hit) and applies at most one power-up
\* effect, whatever the player overlaps.
C26_OneCollisionAndOnePickupPerFrame ==
    [][(ev'.op = "frame" /\ ev'.ran) =>
          /\ game'.player.lives >= game.player.lives - 1
          /\ Cardinality(C26_RemovedByCollision) <= 1
          /\ \A i \in C26_RemovedByCollision : game.obstacles[i].id = ev'.hit
          /\ C26_PickedUp <= 1
          /\ C26_PickedUp = 1 <=> ev'.pickup # "none"
          /\ ~(game'.timeScale # game.timeScale
                   /\ game'.scoreMultiplier # game.scoreMultiplier)]_vars

\* C26: a frame has processed one obstacle and picked up one power-up, and
\* the player still overlaps another obstacle and another power-up.
C26_StillOverlappingAfterFrame ==
    /\ ev.op = "frame" /\ ev.hit # 0 /\ ev.pickup # "none"
    /\ \E i \in 1..Len(game.obstacles) :
          checkCollision(PlayerBody(game.player), ObstacleHitbox(game.obstacles[i]))
    /\ \E i \in 1..Len(game.powerUps) :
          checkCollision(PlayerBody(game.player), PowerUpBody(game.powerUps[i]))

\* C27 as stated: in a frame with time scale 0.5, every obstacle and power-up
\* that stays on the road moves half as far as the same frame time moves it
\* at time scale 1 (up to 2 units of the fixed point's rounding), and the
\* player's power-up timer counts down half the frame time.
C27_HalfScaleHalvesMotion ==
    [][(ev'.op = "frame" /\ ev'.ran /\ game.timeScale = 50 /\ ev'.deltaTime > 0) =>
          LET real == Min(ev'.deltaTime, MAX_DELTA)
          IN  /\ \A i \in 1..Len(game.obstacles) : \A j \in 1..Len(game'.obstacles) :
                    game'.obstacles[j].id = game.obstacles[i].id =>
                        Abs(2 * (game'.obstacles[j].y - game.obstacles[i].y)
                              - ObstacleFall(game.obstacles[i], real, game.player.speed, 100)) <= 2
              /\ \A i \in 1..Len(game.powerUps) :
                    (i <= Len(game'.powerUps) /\ ev'.pickup = "none") =>
                        Abs(2 * (game'.powerUps[i].y - game.powerUps[i].y)
                              - PowerUpFall(real, game.player.speed, 100)) <= 2
              /\ game.player.power # "null" =>
                    2 * (game.player.powerUpTime - game'.player.powerUpTime) = real]_vars

\* C27: a 16 ms frame has run at time scale 0.5 with obstacles on the road
\* and the player's slow-motion timer counting down.
C27_SlowFrameWithTraffic ==
    /\ ev.op = "frame" /\ ev.ran /\ ev.deltaTime = 16 /\ ev.delta = 8
    /\ game.timeScale = 50 /\ game.player.power = "slowMotion"
    /\ game.obstacles # <<>> /\ ev.hit = 0

\* the player has the shield power-up active
Shielded(p) == p.exists /\ p.power = "invincibility"

\* C28: a shield pickup leaves the player invincible, with the shield flag,
\* visible, and the countdown at the power-up's duration; while the shield is
\* active the player is invincible, flagged and visible; an update that
\* leaves part of the countdown only lowers it by the update's delta, and the
\* update that brings it to 0 or below clears the invincible flag, the shield
\* flag and the active power-up before the frame's collision check, which
\* finds the player vulnerable (only a hit or a pickup of that same check
\* sets a flag or a power-up again); no other step but a start changes them.
C28_ShieldLastsItsCountdown ==
    /\ [](Shielded(game.player) =>
             game.player.invincible /\ game.player.hasShield /\ game.player.visible)
    /\ [][/\ ev'.pickup = "invincibility" =>
                /\ Shielded(game'.player)
                /\ game'.player.powerUpTime = PowerUpType("shield").duration
          /\ (Shielded(game.player) /\ ev'.op # "start") =>
                IF ev'.ran /\ game.player.powerUpTime - ev'.delta <= 0
                THEN /\ ev'.checked /\ ~ev'.invAtCollision
                     /\ game'.player.visible
                     /\ ev'.hit = 0 => ~game'.player.invincible \/ ev'.pickup = "invincibility"
                     /\ ev'.pickup = "none" =>
                            ~game'.player.hasShield /\ game'.player.power = "null"
                ELSE /\ Shielded(game'.player)
                     /\ game'.player.powerUpTime =
                            game.player.powerUpTime - (IF ev'.ran THEN ev'.delta ELSE 0)]_vars

\* C28: the shield that had 110 ms left has run out in the second of two
\* frames, of 16 and 100 ms, which has cleared the flags and the power-up.
C28_ShieldRanOut ==
    /\ ev.op = "frame" /\ ev.ran /\ ev.delta = 100 /\ ~ev.invAtCollision
    /\ game.player.exists /\ game.player.power = "null"
    /\ game.player.powerUpTime = RunPlayer(2, "shield").powerUpTime - 16 - 100
    /\ ~game.player.invincible /\ ~game.player.hasShield /\ game.player.visible
    /\ game.player.lives = 2 /\ ev.hit = 0

\* C29 as stated: a particle-system update keeps a one-shot emitter whose
\* particles are still alive after it. The emitter looked at is the newest
\* one, whose particles are the last burst of the list.
C29_EmitterKeptWhileParticlesLive ==
    [][(/\ ev'.op = "particles" /\ game.emitters > 0 /\ game.particles # <<>>
        /\ LET last == game.particles[Len(game.particles)]
           IN  last.age + ev'.delta < last.lifetime) =>
          game'.emitters >= 1]_vars

\* C29: the first update after an explosion has run; the explosion's
\* particles are alive and the emitter list is empty.
C29_EmitterGoneParticlesAlive ==
    /\ ev.op = "particles" /\ game.emitters = 0 /\ game.particles # <<>>
    /\ game.particles[Len(game.particles)].age = ev.delta
    /\ game.particles[Len(game.particles)].age < game.particles[Len(game.particles)].lifetime

\* the obstacles of the state before an update that are not on the road after it
C30_Removed ==
    {i \in 1..Len(game.obstacles) :
        \A j \in 1..Len(game'.obstacles) : game'.obstacles[j].id # game.obstacles[i].id}

\* floor(points x player speed x score multiplier) over the removed obstacles
\* that the update did not record as hit
C30_Awards ==
    LET RECURSIVE Sum(_)
        Sum(S) == IF S = {} THEN 0
                  ELSE LET i == CHOOSE k \in S : TRUE
                       IN  (IF game.obstacles[i].id = ev'.hit THEN 0
                            ELSE (ObstacleType(game.obstacles[i].type).points
                                      * game.player.speed * game.scoreMultiplier) \div 1000)
                           + Sum(S \ {i})
    IN  Sum(C30_Removed)

\* the distance score of the update: floor(delta x speed x multiplier x
\* SCORE_MULTIPLIER), with the speed and multiplier the update ends with;
\* nothing when the update ended in an error before the accrual
C30_Distance ==
    IF ev'.threw THEN 0
    ELSE (ev'.delta * game'.player.speed * game'.scoreMultiplier * SCORE_MULTIPLIER)
             \div 1000000

\* C30: an update raises the score by its distance score and by
\* floor(points x player speed x score multiplier) for every obstacle it
\* removes other than the one it hit; every obstacle so awarded has moved
\* past the bottom edge (y > canvas height), and is gone from the road, so
\* that no later update awards it again; the obstacle hit adds nothing.
C30_AwardOnLeavingOnly ==
    [][(ev'.ran /\ ev'.op # "start") =>
          /\ game'.score = game.score + C30_Awards + C30_Distance
          /\ \A i \in C30_Removed :
                \/ game.obstacles[i].id = ev'.hit
                \/ game.obstacles[i].y
                       + ObstacleFall(game.obstacles[i], ev'.delta, game.player.speed,
                                      game.timeScale) > Px(CanvasHeight)]_vars

\* C30: one frame of a run with the score doubled has awarded the debris
\* that left the road (5 points x 1.0 x 2) and removed the truck it hit
\* without an award.
C30_AwardedAndHitInOneFrame ==
    /\ ev.op = "frame" /\ ev.ran /\ ev.hit = 2 /\ game.obstacles = <<>>
    /\ game.scoreMultiplier = 2
    /\ game.score = 20 + 10 + (ev.delta * game.player.speed * 2 * SCORE_MULTIPLIER) \div 1000000

\* C31 as stated, for the first frame callback after a start or restart, at
\* most 100 ms into the run: it escalates nothing (difficulty counter and
\* speed unchanged), spawns no obstacle and makes no power-up roll (the
\* timestamp of the last roll stays at the start's 0).
C31_NothingDueRightAfterStart ==
    [][(ev.op = "start" /\ ev'.op = "frame" /\ ev'.ran) =>
          /\ game'.difficulty = game.difficulty
          /\ game'.player.speed = game.player.speed
          /\ game'.lastSpeedIncreaseTime = game.lastSpeedIncreaseTime
          /\ game'.obstacles = <<>>
          /\ game'.lastPowerUpTime = game.lastPowerUpTime /\ ~ev'.threw]_vars

\* C31: the first frame callback of a run started 16 s after page load has
\* run, 16 ms into the run.
C31_FirstFrameOfLateStart ==
    /\ ev.op = "frame" /\ ev.ran /\ steps = 2 /\ Mode = "playing"
    /\ game.gameTime = 16000 + 16 /\ ev.deltaTime = NOMINAL_DELTA
    /\ game.lastSpeedIncreaseTime = game.gameTime
    /\ game.difficulty = 10000 + DIFFICULTY_INCREASE_RATE

\* C32 as stated: a frame whose difficulty escalation raises the first decimal
\* digit of the player's speed, with a notification system present, emits the
\* speed-increased notification.
C32_SpeedRiseIsNotified ==
    [][(/\ ev'.op = "frame" /\ game.notificationSystem
        /\ game'.difficulty > game.difficulty
        /\ game.player.exists /\ game'.player.exists
        /\ game'.player.speed \div 100 > game.player.speed \div 100) =>
          \E i \in DOMAIN ev'.notes : ev'.notes[i] = "speed"]_vars

\* C32: an escalation has just raised the speed from 1.0 to 1.1 with a
\* notification system present.
C32_EscalatedWithNotifications ==
    /\ ev.op = "frame" /\ ev.ran /\ game.notificationSystem
    /\ game.lastSpeedIncreaseTime = game.gameTime /\ game.gameTime > 0
    /\ game.difficulty = 10000 + DIFFICULTY_INCREASE_RATE
    /\ game.player.exists /\ game.player.speed = BASE_GAME_SPEED + SPEED_INCREMENT

\* C33 as stated, over one second: after a second of steady 16 ms frames at
\* speed 1.0 and multiplier 1 (about SCORE_MULTIPLIER points' worth of
\* distance) the score has risen above 0.
C33_DistanceScoresWithinASecond ==
    (/\ Mode = "playing" /\ game.player.speed = BASE_GAME_SPEED
     /\ game.scoreMultiplier = 1 /\ ev.op = "frame" /\ ev.deltaTime = NOMINAL_DELTA
     /\ game.gameTime >= SteadyStart + 1000) => game.score > 0

\* C33: a second and a half of steady 16 ms frames at speed 1.0 and
\* multiplier 1 has been played, an obstacle is on the road and none has left.
C33_SteadySecondPlayed ==
    /\ Mode = "playing" /\ game.player.speed = BASE_GAME_SPEED
    /\ game.scoreMultiplier = 1 /\ ev.op = "frame" /\ ev.ran
    /\ ev.deltaTime = NOMINAL_DELTA /\ ev.delta = NOMINAL_DELTA
    /\ game.gameTime >= SteadyStart + 1500 /\ Len(game.obstacles) = 1
    /\ game.score = 0
    /\ game.player.lives = STARTING_LIVES

\* C34 as stated: at most one frame callback of the game loop is pending, and
\* none in Menu or Paused.
C34_AtMostOneFramePending ==
    /\ pending <= 1
    /\ Mode \in {"menu", "paused"} => pending = 0

\* C34: the game was paused with a frame callback pending and then resumed,
\* and exactly one callback is pending again.
C34_ResumedWithOneFrame ==
    /\ ev.op = "resume" /\ ev.from = "paused" /\ Mode = "playing"
    /\ pending = 1 /\ game.animationId = "live" /\ steps >= 3

\* C35 as stated: whenever the mode is GameOver the player's lives are 0.
C35_DeadInGameOver == Mode = "gameOver" => game.player.exists /\ game.player.lives = 0

\* C35: the frame of the fatal collision also picked up an extra life.
C35_LifePickedUpInFatalFrame ==
    /\ ev.op = "frame" /\ ev.dead /\ ev.hit # 0 /\ ev.pickup = "addLife"
    /\ Mode = "gameOver" /\ game.player.lives = 1

\* C36 as stated: the stored high score never decreases, and whenever the mode
\* is GameOver it is at least the run's score.
C36_HighScoreCoversFinalScore ==
    /\ [](Mode = "gameOver" => game.highScore >= game.score)
    /\ [][game'.highScore >= game.highScore]_vars

\* C36: the frame of the fatal collision stored the score as the new high
\* score and then added the frame's distance to the score.
C36_ScoreGrewAfterComparison ==
    /\ ev.op = "frame" /\ ev.dead /\ Mode = "gameOver" /\ ev.delta = MAX_DELTA
    /\ \E i \in DOMAIN ev.notes : ev.notes[i] = "highScore"
    /\ game.score = game.highScore + 1

\* C37: in every reachable state a set shield flag implies that the player is
\* invincible with 'invincibility' as the active power-up, and a player who
\* is not invincible is visible.
C37_ShieldAndBlinkConsistent ==
    game.player.exists =>
        /\ game.player.hasShield =>
              game.player.invincible /\ game.player.power = "invincibility"
        /\ ~game.player.invincible => game.player.visible

\* C37: a frame has just run out the shield of a player.
C37_ShieldJustEnded ==
    /\ ev.op = "frame" /\ ev.ran /\ game.player.exists
    /\ game.player.powerUpTime <= 0 /\ game.player.powerUpTime > -MAX_DELTA
    /\ ~game.player.hasShield /\ ~game.player.invincible /\ game.player.visible
    /\ game.player.power = "null" /\ ev.hit = 0 /\ ev.pickup = "none"
    /\ ev.checked /\ ~ev.invAtCollision

\* C38: for every non-negative score the power-up spawn interval is
\* POWER_UP_MIN_SPAWN_INTERVAL, three obstacle intervals being less, and a
\* power-up roll is made only when more than that has elapsed since the last.
C38_PowerUpIntervalIsTheMinimum ==
    /\ [](game.score >= 0 =>
            /\ getPowerUpSpawnInterval(game.score)
                    = POWER_UP_MIN_SPAWN_INTERVAL * OBSTACLE_INTERVAL_RATE_DENOM
            /\ getObstacleSpawnInterval(game.score) * 3
                    < POWER_UP_MIN_SPAWN_INTERVAL * OBSTACLE_INTERVAL_RATE_DENOM
            /\ PowerUpDue(game) <=>
                    game.gameTime - game.lastPowerUpTime > POWER_UP_MIN_SPAWN_INTERVAL)
    /\ [][(ev'.op = "spawnPowerUp" /\ game.score >= 0) =>
             game.gameTime - game.lastPowerUpTime > POWER_UP_MIN_SPAWN_INTERVAL]_vars

\* C38: a power-up roll was made at score 20, where the obstacle interval is
\* just below BASE_OBSTACLE_INTERVAL.
C38_RolledAtLowScore ==
    /\ ev.op = "spawnPowerUp" /\ game.score = 20
    /\ getObstacleSpawnInterval(game.score)
            > (BASE_OBSTACLE_INTERVAL - 1) * OBSTACLE_INTERVAL_RATE_DENOM
    /\ game.lastPowerUpTime = game.gameTime

\* C39: a decelerate command while Playing leaves the player's speed at
\* BASE_GAME_SPEED whatever it was before, escalation increments included, and
\* changes nothing else of the run but the accelerating flag.
C39_DecelerateResetsToBase ==
    [][(/\ ev'.op = "command" /\ ev'.input = "decelerate"
        /\ Mode = "playing" /\ game.player.exists) =>
          /\ game'.player.speed = BASE_GAME_SPEED
          /\ game'.player.speed <= game.player.speed
          /\ ~game'.player.isAccelerating
          /\ game'.difficulty = game.difficulty
          /\ game' = [game EXCEPT !.player.speed = BASE_GAME_SPEED,
                                  !.player.isAccelerating = FALSE]]_vars

\* C39: a decelerate command was given in a run past its first escalation,
\* whose speed was above BASE_GAME_SPEED by the escalation's increment at least.
C39_DeceleratedAfterEscalation ==
    /\ ev.op = "command" /\ ev.input = "decelerate" /\ ev.from = "playing"
    /\ Mode = "playing" /\ game.difficulty = 10000 + DIFFICULTY_INCREASE_RATE
    /\ game.lastSpeedIncreaseTime = game.gameTime
    /\ game.player.speed = BASE_GAME_SPEED /\ ~game.player.isAccelerating

====
